---- MODULE Spec2Model ----
(***************************************************************************)
(* NDC Packaging & Quantity Calculator: the SIG parser                     *)
(* (sig-parser.service.ts), the quantity calculator and the package        *)
(* selector (calculator.service.ts).                                       *)
(*                                                                         *)
(* Texts are TLA+ strings; the regular expressions of the source are       *)
(* written as syntax trees and run by a backtracking matcher that keeps    *)
(* JavaScript's priority order (leftmost start, alternatives left to       *)
(* right, greedy before shorter, lazy before longer).  Numbers are exact   *)
(* rationals [n, d] in lowest terms.                                       *)
(***************************************************************************)
EXTENDS Integers, Sequences, FiniteSets, TLC

(***************************************************************************)
(* Optional values: <<>> is undefined, <<x>> is a present value.           *)
(***************************************************************************)
Undefined == <<>>

Some(x) == <<x>>

IsDefined(o) == o # <<>>

(***************************************************************************)
(* Exact rational arithmetic.                                              *)
(***************************************************************************)
Abs(x) == IF x < 0 THEN -x ELSE x

RECURSIVE GCD(_, _)
GCD(a, b) == IF b = 0 THEN a ELSE GCD(b, a % b)

Rat(n, d) ==
    LET g == GCD(Abs(n), d)
    IN  [n |-> n \div g, d |-> d \div g]

Num(k) == [n |-> k, d |-> 1]

RAdd(a, b) == Rat(a.n * b.d + b.n * a.d, a.d * b.d)

RSub(a, b) == Rat(a.n * b.d - b.n * a.d, a.d * b.d)

RMul(a, b) == Rat(a.n * b.n, a.d * b.d)

\* a / b for b > 0
RDiv(a, b) == Rat(a.n * b.d, a.d * b.n)

RLess(a, b) == a.n * b.d < b.n * a.d

RLeq(a, b) == a.n * b.d <= b.n * a.d

\* Math.floor and Math.ceil (\div rounds toward minus infinity)
Floor(a) == a.n \div a.d

Ceil(a) == -((-a.n) \div a.d)

\* Math.round(24 / hours) for hours > 0: round half up
Round24Over(hours) == (48 + hours) \div (2 * hours)

(***************************************************************************)
(* Strings.                                                                *)
(***************************************************************************)
Ch(s, i) == IF i >= 1 /\ i <= Len(s) THEN SubSeq(s, i, i) ELSE ""

StartsAt(s, i, w) ==
    /\ i >= 1
    /\ i + Len(w) - 1 <= Len(s)
    /\ SubSeq(s, i, i + Len(w) - 1) = w

\* String.prototype.includes
Includes(s, w) == \E i \in 1..(Len(s) + 1) : StartsAt(s, i, w)

UpperCaseLetters == "ABCDEFGHIJKLMNOPQRSTUVWXYZ"

LowerCaseLetters == "abcdefghijklmnopqrstuvwxyz"

LowerOf ==
    [c \in {Ch(UpperCaseLetters, k) : k \in 1..26} |->
        Ch(LowerCaseLetters, CHOOSE k \in 1..26 : Ch(UpperCaseLetters, k) = c)]

LowerChar(c) == IF c \in DOMAIN LowerOf THEN LowerOf[c] ELSE c

RECURSIVE ToLowerCase(_)
ToLowerCase(s) ==
    IF Len(s) = 0 THEN ""
    ELSE IF Len(s) = 1 THEN LowerChar(s)
    ELSE LET mid == Len(s) \div 2
         IN  ToLowerCase(SubSeq(s, 1, mid)) \o ToLowerCase(SubSeq(s, mid + 1, Len(s)))

WhiteSpace == {" "}

RECURSIVE TrimStart(_)
TrimStart(s) ==
    IF Len(s) > 0 /\ Ch(s, 1) \in WhiteSpace
    THEN TrimStart(SubSeq(s, 2, Len(s)))
    ELSE s

RECURSIVE TrimEnd(_)
TrimEnd(s) ==
    IF Len(s) > 0 /\ Ch(s, Len(s)) \in WhiteSpace
    THEN TrimEnd(SubSeq(s, 1, Len(s) - 1))
    ELSE s

Trim(s) == TrimEnd(TrimStart(s))

Digits == {"0", "1", "2", "3", "4", "5", "6", "7", "8", "9"}

DigitValue(c) ==
    CASE c = "0" -> 0 [] c = "1" -> 1 [] c = "2" -> 2 [] c = "3" -> 3
      [] c = "4" -> 4 [] c = "5" -> 5 [] c = "6" -> 6 [] c = "7" -> 7
      [] c = "8" -> 8 [] c = "9" -> 9

\* parseInt(s, 10) of a string of digits
RECURSIVE ParseInt(_)
ParseInt(s) ==
    IF Len(s) = 0 THEN 0
    ELSE 10 * ParseInt(SubSeq(s, 1, Len(s) - 1)) + DigitValue(Ch(s, Len(s)))

RECURSIVE Pow10(_)
Pow10(k) == IF k = 0 THEN 1 ELSE 10 * Pow10(k - 1)

\* parseFloat(s) of a string matching \d+(\.\d+)?
ParseFloat(s) ==
    IF \E i \in 1..Len(s) : Ch(s, i) = "."
    THEN LET p == CHOOSE i \in 1..Len(s) : Ch(s, i) = "."
             whole == SubSeq(s, 1, p - 1)
             frac == SubSeq(s, p + 1, Len(s))
         IN  Rat(ParseInt(whole) * Pow10(Len(frac)) + ParseInt(frac), Pow10(Len(frac)))
    ELSE Num(ParseInt(s))

(***************************************************************************)
(* Regular expressions as syntax trees.                                    *)
(***************************************************************************)
Lit(w) == [t |-> "lit", w |-> w]

Class(cs) == [t |-> "cls", cs |-> cs]

AnyChar == [t |-> "any"]

Alt(rs) == [t |-> "alt", rs |-> rs]

Cat(rs) == [t |-> "cat", rs |-> rs]

\* r* / r+ / r? (greedy) and r*? (lazy)
Star(r) == [t |-> "star", r |-> r, lazy |-> FALSE]

LazyStar(r) == [t |-> "star", r |-> r, lazy |-> TRUE]

Plus(r) == Cat(<<r, Star(r)>>)

Opt(r) == [t |-> "opt", r |-> r]

\* capturing group number k
Group(k, r) == [t |-> "grp", k |-> k, r |-> r]

Digit == Class(Digits)

Space == Class(WhiteSpace)

Words(ws) == Alt([i \in 1..Len(ws) |-> Lit(ws[i])])

MaxGroups == 6

NoCaptures == [k \in 1..MaxGroups |-> Undefined]

(***************************************************************************)
(* Run(r, s, i, caps): every way r matches s from position i, in the       *)
(* order a backtracking matcher tries them; each is [e, c] with e the      *)
(* position after the match and c the captures.                            *)
(***************************************************************************)
RECURSIVE Run(_, _, _, _)
RECURSIVE RunAlt(_, _, _, _, _, _)
RECURSIVE RunCat(_, _, _, _)
RECURSIVE RunEach(_, _, _, _, _)

Run(r, s, i, caps) ==
    CASE r.t = "lit" ->
            IF StartsAt(s, i, r.w) THEN <<[e |-> i + Len(r.w), c |-> caps]>> ELSE <<>>
      [] r.t = "cls" ->
            IF Ch(s, i) \in r.cs THEN <<[e |-> i + 1, c |-> caps]>> ELSE <<>>
      [] r.t = "any" ->
            IF i <= Len(s) THEN <<[e |-> i + 1, c |-> caps]>> ELSE <<>>
      [] r.t = "alt" -> RunAlt(r.rs, 1, Len(r.rs), s, i, caps)
      [] r.t = "cat" -> RunCat(r.rs, 1, s, <<[e |-> i, c |-> caps]>>)
      [] r.t = "opt" -> Run(r.r, s, i, caps) \o <<[e |-> i, c |-> caps]>>
      [] r.t = "star" ->
            IF r.r.t \in {"cls", "any"}
            THEN \* a one-character body: the ends are i .. i + n, n the number
                 \* of characters from i on that the body matches
                 LET matches(j) == IF r.r.t = "any" THEN j <= Len(s)
                                   ELSE Ch(s, j) \in r.r.cs
                     n == CHOOSE k \in 0..(Len(s) + 1 - i) :
                             /\ \A j \in i..(i + k - 1) : matches(j)
                             /\ ~matches(i + k)
                 IN  [j \in 1..(n + 1) |->
                        [e |-> IF r.lazy THEN i + j - 1 ELSE i + n + 1 - j, c |-> caps]]
            ELSE LET firsts == Run(r.r, s, i, caps)
                 IN  IF r.lazy
                     THEN <<[e |-> i, c |-> caps]>> \o RunEach(r, s, firsts, 1, Len(firsts))
                     ELSE RunEach(r, s, firsts, 1, Len(firsts)) \o <<[e |-> i, c |-> caps]>>
      [] r.t = "grp" ->
            LET inner == Run(r.r, s, i, caps)
            IN  [j \in 1..Len(inner) |->
                    [e |-> inner[j].e,
                     c |-> [inner[j].c EXCEPT ![r.k] = Some(SubSeq(s, i, inner[j].e - 1))]]]

\* the alternatives lo .. hi in order (the range is halved, which keeps the
\* evaluation shallow)
RunAlt(rs, lo, hi, s, i, caps) ==
    IF lo > hi THEN <<>>
    ELSE IF lo = hi THEN Run(rs[lo], s, i, caps)
    ELSE LET mid == (lo + hi) \div 2
         IN  RunAlt(rs, lo, mid, s, i, caps) \o RunAlt(rs, mid + 1, hi, s, i, caps)

\* the parts k, k + 1, ... of a concatenation, continued from every way the
\* parts before them matched, in the order a backtracking matcher tries them
RunCat(rs, k, s, ways) ==
    IF k > Len(rs) \/ Len(ways) = 0 THEN ways
    ELSE RunCat(rs, k + 1, s, RunEach(rs[k], s, ways, 1, Len(ways)))

\* r matched from the end of each of the ways lo .. hi
RunEach(r, s, ways, lo, hi) ==
    IF lo > hi THEN <<>>
    ELSE IF lo = hi THEN Run(r, s, ways[lo].e, ways[lo].c)
    ELSE LET mid == (lo + hi) \div 2
         IN  RunEach(r, s, ways, lo, mid) \o RunEach(r, s, ways, mid + 1, hi)

MatchesAt(r, s, i) == Len(Run(r, s, i, NoCaptures)) > 0

\* RegExp.prototype.test
Test(r, s) == \E i \in 1..(Len(s) + 1) : MatchesAt(r, s, i)

\* String.prototype.match without the g flag: the captures of the first
\* way the leftmost matching start succeeds (only when Test(r, s))
Match(r, s) ==
    LET i == CHOOSE p \in 1..(Len(s) + 1) :
                 /\ MatchesAt(r, s, p)
                 /\ \A q \in 1..(p - 1) : ~MatchesAt(r, s, q)
    IN  Run(r, s, i, NoCaptures)[1].c

(***************************************************************************)
(* SIGParserService (sig-parser.service.ts).                               *)
(***************************************************************************)
\* the alternation (tablet|tab|capsule|...|doses) shared by every pattern
UnitWords ==
    <<"tablet", "tab", "capsule", "cap", "ml", "mg", "g", "unit", "units",
      "puff", "puffs", "dose", "doses">>

UnitAlt == Words(UnitWords)

Spaces0 == Star(Space)

Spaces1 == Plus(Space)

Number == Plus(Digit)

TakePrefix == Opt(Cat(<<Lit("take"), Spaces1>>))

\* /(tablet|tab|capsule|cap|ml|mg|g|unit|units|puff|puffs|dose|doses)/i
unitRegex == Group(1, UnitAlt)

\* /as needed|prn|when needed|if needed/i
prnRegex == Words(<<"as needed", "prn", "when needed", "if needed">>)

\* /(\d+)\s*-\s*(\d+)\s*(tablet|...)/i
rangeRegex ==
    Cat(<<Group(1, Number), Spaces0, Lit("-"), Spaces0, Group(2, Number),
          Spaces0, Group(3, UnitAlt)>>)

\* /(?:take\s+)?(\d+)\s*(U)\s+(?:in\s+)?(?:the\s+)?(morning|am|breakfast|daytime)
\*  .*?(?:and|,)\s*(\d+)\s*(?:(U)\s+)?(?:at|in|with)\s+(?:the\s+)?
\*  (bedtime|night|pm|evening|dinner)/i
multipleTimesRegex ==
    Cat(<<TakePrefix, Group(1, Number), Spaces0, Group(2, UnitAlt), Spaces1,
          Opt(Cat(<<Lit("in"), Spaces1>>)), Opt(Cat(<<Lit("the"), Spaces1>>)),
          Group(3, Words(<<"morning", "am", "breakfast", "daytime">>)),
          LazyStar(AnyChar), Words(<<"and", ",">>), Spaces0,
          Group(4, Number), Spaces0,
          Opt(Cat(<<Group(5, UnitAlt), Spaces1>>)),
          Words(<<"at", "in", "with">>), Spaces1,
          Opt(Cat(<<Lit("the"), Spaces1>>)),
          Group(6, Words(<<"bedtime", "night", "pm", "evening", "dinner">>))>>)

\* /(?:take\s+)?(\d+)\s*(U)\s+(?:on\s+)?(?:day\s+)?(\d+).*?
\*  (?:then|after|followed by)\s+(\d+)\s*(U)\s+(?:daily|once daily|qd)/i
taperingRegex ==
    Cat(<<TakePrefix, Group(1, Number), Spaces0, Group(2, UnitAlt), Spaces1,
          Opt(Cat(<<Lit("on"), Spaces1>>)), Opt(Cat(<<Lit("day"), Spaces1>>)),
          Group(3, Number), LazyStar(AnyChar),
          Words(<<"then", "after", "followed by">>), Spaces1,
          Group(4, Number), Spaces0, Group(5, UnitAlt), Spaces1,
          Words(<<"daily", "once daily", "qd">>)>>)

\* /(?:take\s+)?(\d+)\s*(U)\s+with\s+(breakfast|meals?|food).*?
\*  (?:and|,)\s+(lunch|dinner|meals?)/i
mealTimesRegex ==
    Cat(<<TakePrefix, Group(1, Number), Spaces0, Group(2, UnitAlt), Spaces1,
          Lit("with"), Spaces1,
          Group(3, Alt(<<Lit("breakfast"), Cat(<<Lit("meal"), Opt(Lit("s"))>>),
                         Lit("food")>>)),
          LazyStar(AnyChar), Words(<<"and", ",">>), Spaces1,
          Group(4, Alt(<<Lit("lunch"), Lit("dinner"),
                         Cat(<<Lit("meal"), Opt(Lit("s"))>>)>>))>>)

\* /(\d+(?:\.\d+)?)\s*(U)/i
doseRegex ==
    Cat(<<Group(1, Cat(<<Number, Opt(Cat(<<Lit("."), Number>>))>>)),
          Spaces0, Group(2, UnitAlt)>>)

\* /every\s*(\d+)\s*(hour|hr|h)/i
everyRegex ==
    Cat(<<Lit("every"), Spaces0, Group(1, Number), Spaces0,
          Group(2, Words(<<"hour", "hr", "h">>))>>)

\* SIGParserService.normalizeUnit: the unitMap, or the word itself
normalizeUnit(unit) ==
    LET normalized == ToLowerCase(unit)
    IN  CASE normalized \in {"tablet", "tab", "tablets"} -> "tablet"
          [] normalized \in {"capsule", "cap", "capsules"} -> "capsule"
          [] normalized = "ml" -> "ml"
          [] normalized = "mg" -> "mg"
          [] normalized = "g" -> "g"
          [] normalized \in {"unit", "units"} -> "unit"
          [] normalized \in {"puff", "puffs"} -> "puff"
          [] normalized \in {"dose", "doses"} -> "dose"
          [] OTHER -> normalized

\* Number.POSITIVE_INFINITY, the value of Math.round(24 / 0)
Infinity == [n |-> 1, d |-> 0]

\* the frequency keywords of the range tier
RangeFrequency(normalized) ==
    IF Includes(normalized, "twice") \/ Includes(normalized, "2x")
          \/ Includes(normalized, "bid")
    THEN Num(2)
    ELSE IF Includes(normalized, "three times") \/ Includes(normalized, "3x")
          \/ Includes(normalized, "tid")
    THEN Num(3)
    ELSE IF Includes(normalized, "four times") \/ Includes(normalized, "4x")
          \/ Includes(normalized, "qid")
    THEN Num(4)
    ELSE Num(1)

\* DefaultFrequency with the once/daily/qd test moved to the front
DefaultFrequencyDailyFirst(normalized) ==
    IF Includes(normalized, "once") \/ Includes(normalized, "daily")
          \/ Includes(normalized, "qd")
    THEN Num(1)
    ELSE IF Includes(normalized, "twice") \/ Includes(normalized, "2x")
          \/ Includes(normalized, "bid")
    THEN Num(2)
    ELSE IF Includes(normalized, "three times") \/ Includes(normalized, "3x")
          \/ Includes(normalized, "tid")
    THEN Num(3)
    ELSE IF Includes(normalized, "four times") \/ Includes(normalized, "4x")
          \/ Includes(normalized, "qid")
    THEN Num(4)
    ELSE Num(1)

\* the frequency keywords of the default tier
DefaultFrequency(normalized) ==
    IF Includes(normalized, "twice") \/ Includes(normalized, "2x")
          \/ Includes(normalized, "bid")
    THEN Num(2)
    ELSE IF Includes(normalized, "three times") \/ Includes(normalized, "3x")
          \/ Includes(normalized, "tid")
    THEN Num(3)
    ELSE IF Includes(normalized, "four times") \/ Includes(normalized, "4x")
          \/ Includes(normalized, "qid")
    THEN Num(4)
    ELSE IF Includes(normalized, "once") \/ Includes(normalized, "daily")
          \/ Includes(normalized, "qd")
    THEN Num(1)
    ELSE IF Includes(normalized, "every") /\ Test(everyRegex, normalized)
    THEN LET hours == ParseInt(Match(everyRegex, normalized)[1][1])
         IN  IF hours = 0 THEN Infinity ELSE Num(Round24Over(hours))
    ELSE Num(1)

\* a DosingScheduleEntry; absent fields are Undefined
ScheduleEntry(dose, frequency, timeOfDay, dayRange) ==
    [dose |-> dose, frequency |-> frequency, timeOfDay |-> timeOfDay,
     dayRange |-> dayRange]

IntToString(k) ==
    CASE k = 0 -> "0" [] k = 1 -> "1" [] k = 2 -> "2" [] k = 3 -> "3"
      [] k = 4 -> "4" [] k = 5 -> "5" [] k = 6 -> "6" [] k = 7 -> "7"
      [] k = 8 -> "8" [] k = 9 -> "9"

\* the decimal numeral of k >= 0, as a template literal prints it
RECURSIVE NumberToString(_)
NumberToString(k) ==
    IF k < 10 THEN IntToString(k)
    ELSE NumberToString(k \div 10) \o IntToString(k % 10)

\* RangeTier returning the average of the two bounds as the dose
RangeTierAverage(m, unit, isPRN, normalized, original) ==
    LET minDose == ParseFloat(m[1][1])
        maxDose == ParseFloat(m[2][1])
        avgDose == RDiv(RAdd(minDose, maxDose), Num(2))
        frequency == RangeFrequency(normalized)
    IN  [dose |-> avgDose, unit |-> unit,
         frequency |-> IF isPRN THEN Num(0) ELSE frequency,
         prn |-> Some(isPRN), isComplex |-> Some(FALSE), schedule |-> Undefined,
         averageDailyDose |-> Some(RMul(avgDose, frequency)),
         maxDose |-> Undefined, instructions |-> original,
         tier |-> "range"]

RangeTier(m, unit, isPRN, normalized, original) ==
    LET minDose == ParseFloat(m[1][1])
        maxDose == ParseFloat(m[2][1])
        avgDose == RDiv(RAdd(minDose, maxDose), Num(2))
        frequency == RangeFrequency(normalized)
    IN  [dose |-> minDose, unit |-> unit,
         frequency |-> IF isPRN THEN Num(0) ELSE frequency,
         prn |-> Some(isPRN), isComplex |-> Some(FALSE), schedule |-> Undefined,
         averageDailyDose |-> Some(RMul(avgDose, frequency)),
         maxDose |-> Undefined, instructions |-> original,
         tier |-> "range"]

MultipleTimesTier(m, unit, original) ==
    LET morningDose == ParseFloat(m[1][1])
        eveningDose == ParseFloat(m[4][1])
        totalDaily == RAdd(morningDose, eveningDose)
    IN  [dose |-> morningDose, unit |-> unit, frequency |-> Num(2),
         prn |-> Undefined, isComplex |-> Some(TRUE),
         schedule |-> Some(<<ScheduleEntry(morningDose, Num(1), Some("morning"), Undefined),
                             ScheduleEntry(eveningDose, Num(1), Some("bedtime"), Undefined)>>),
         averageDailyDose |-> Some(totalDaily),
         maxDose |-> Undefined, instructions |-> original,
         tier |-> "multipleTimes"]

TaperingTier(m, unit, original) ==
    LET initialDose == ParseFloat(m[1][1])
        initialDay == ParseInt(m[3][1])
        maintenanceDose == ParseFloat(m[4][1])
    IN  [dose |-> maintenanceDose, unit |-> unit, frequency |-> Num(1),
         prn |-> Undefined, isComplex |-> Some(TRUE),
         schedule |-> Some(<<ScheduleEntry(initialDose, Num(1), Undefined,
                                           Some("day " \o NumberToString(initialDay))),
                             ScheduleEntry(maintenanceDose, Num(1), Undefined,
                                           Some("days " \o NumberToString(initialDay + 1) \o "+"))>>),
         averageDailyDose |-> Some(initialDose),
         maxDose |-> Undefined, instructions |-> original,
         tier |-> "tapering"]

MealTimesTier(m, unit, original) ==
    LET dose == ParseFloat(m[1][1])
        frequency == Num(3)
    IN  [dose |-> dose, unit |-> unit, frequency |-> frequency,
         prn |-> Undefined, isComplex |-> Some(TRUE),
         schedule |-> Some(<<ScheduleEntry(dose, Num(1), Some("breakfast"), Undefined),
                             ScheduleEntry(dose, Num(1), Some("lunch"), Undefined),
                             ScheduleEntry(dose, Num(1), Some("dinner"), Undefined)>>),
         averageDailyDose |-> Some(RMul(dose, frequency)),
         maxDose |-> Undefined, instructions |-> original,
         tier |-> "mealTimes"]

\* DefaultTier with a dose of 0 when no dose is written
DefaultTierZeroDose(unit, isPRN, normalized, original) ==
    [dose |-> IF Test(doseRegex, normalized)
              THEN ParseFloat(Match(doseRegex, normalized)[1][1])
              ELSE Num(0),
     unit |-> unit,
     frequency |-> IF isPRN THEN Num(0) ELSE DefaultFrequency(normalized),
     prn |-> Some(isPRN), isComplex |-> Some(FALSE), schedule |-> Undefined,
     averageDailyDose |-> Undefined, maxDose |-> Undefined,
     instructions |-> original, tier |-> "default"]

DefaultTier(unit, isPRN, normalized, original) ==
    LET dose == IF Test(doseRegex, normalized)
                THEN ParseFloat(Match(doseRegex, normalized)[1][1])
                ELSE Num(1)
        frequency == DefaultFrequency(normalized)
    IN  [dose |-> dose, unit |-> unit,
         frequency |-> IF isPRN THEN Num(0) ELSE frequency,
         prn |-> Some(isPRN), isComplex |-> Some(FALSE), schedule |-> Undefined,
         averageDailyDose |-> Undefined,
         maxDose |-> Undefined, instructions |-> original,
         tier |-> "default"]

\* parseWithRules trying the multi-time pattern before the range pattern
parseWithRulesMultipleTimesFirst(sig) ==
    LET normalized == Trim(ToLowerCase(sig))
        original == sig
        unit == IF Test(unitRegex, normalized)
                THEN normalizeUnit(Match(unitRegex, normalized)[1][1])
                ELSE "unit"
        isPRN == Test(prnRegex, normalized)
    IN  IF Test(multipleTimesRegex, normalized)
        THEN MultipleTimesTier(Match(multipleTimesRegex, normalized), unit, original)
        ELSE IF Test(rangeRegex, normalized)
        THEN RangeTier(Match(rangeRegex, normalized), unit, isPRN, normalized, original)
        ELSE IF Test(taperingRegex, normalized)
        THEN TaperingTier(Match(taperingRegex, normalized), unit, original)
        ELSE IF Test(mealTimesRegex, normalized)
        THEN MealTimesTier(Match(mealTimesRegex, normalized), unit, original)
        ELSE DefaultTier(unit, isPRN, normalized, original)

\* SIGParserService.parseWithRules.  The field tier is not part of the
\* ParsedSIG: it records which return statement produced the result.
\* maxDose is a member of the type that no return statement assigns.
parseWithRules(sig) ==
    LET normalized == Trim(ToLowerCase(sig))
        original == sig
        unit == IF Test(unitRegex, normalized)
                THEN normalizeUnit(Match(unitRegex, normalized)[1][1])
                ELSE "unit"
        isPRN == Test(prnRegex, normalized)
    IN  IF Test(rangeRegex, normalized)
        THEN RangeTier(Match(rangeRegex, normalized), unit, isPRN, normalized, original)
        ELSE IF Test(multipleTimesRegex, normalized)
        THEN MultipleTimesTier(Match(multipleTimesRegex, normalized), unit, original)
        ELSE IF Test(taperingRegex, normalized)
        THEN TaperingTier(Match(taperingRegex, normalized), unit, original)
        ELSE IF Test(mealTimesRegex, normalized)
        THEN MealTimesTier(Match(mealTimesRegex, normalized), unit, original)
        ELSE DefaultTier(unit, isPRN, normalized, original)

\* SIGParserService.normalizeParsedSIG: the reply of the AI strategy,
\* a JSON object whose absent members are Undefined
normalizeParsedSIG(parsed, original) ==
    [dose |-> IF IsDefined(parsed.dose) /\ parsed.dose[1].n # 0
              THEN parsed.dose[1] ELSE Num(1),
     unit |-> normalizeUnit(IF IsDefined(parsed.unit) /\ parsed.unit[1] # ""
                            THEN parsed.unit[1] ELSE "unit"),
     frequency |-> IF IsDefined(parsed.frequency) /\ parsed.frequency[1].n # 0
                   THEN parsed.frequency[1] ELSE Num(1),
     isComplex |-> IF IsDefined(parsed.isComplex) /\ parsed.isComplex[1]
                   THEN Some(TRUE) ELSE Some(FALSE),
     schedule |-> parsed.schedule,
     prn |-> IF IsDefined(parsed.prn) /\ parsed.prn[1]
             THEN Some(TRUE) ELSE Some(FALSE),
     averageDailyDose |-> parsed.averageDailyDose,
     instructions |-> IF IsDefined(parsed.instructions) /\ parsed.instructions[1] # ""
                      THEN parsed.instructions[1] ELSE original,
     maxDose |-> Undefined, tier |-> "ai"]

(***************************************************************************)
(* CalculatorService (calculator.service.ts).                              *)
(***************************************************************************)
\* /day\s+(\d+)/
singleDayRegex == Cat(<<Lit("day"), Spaces1, Group(1, Number)>>)

\* /days?\s+(\d+)\s*-\s*(\d+)/
dayRangeRegex ==
    Cat(<<Lit("day"), Opt(Lit("s")), Spaces1, Group(1, Number), Spaces0,
          Lit("-"), Spaces0, Group(2, Number)>>)

\* /days?\s+(\d+)\s*\+/
onwardsRegex ==
    Cat(<<Lit("day"), Opt(Lit("s")), Spaces1, Group(1, Number), Spaces0, Lit("+")>>)

\* CalculatorService.parseDayRange
parseDayRange(dayRange, totalDays) ==
    LET normalized == Trim(ToLowerCase(dayRange))
    IN  IF Test(singleDayRegex, normalized)
        THEN LET day == ParseInt(Match(singleDayRegex, normalized)[1][1])
             IN  [start |-> day, end |-> day]
        ELSE IF Test(dayRangeRegex, normalized)
        THEN [start |-> ParseInt(Match(dayRangeRegex, normalized)[1][1]),
              end |-> ParseInt(Match(dayRangeRegex, normalized)[2][1])]
        ELSE IF Test(onwardsRegex, normalized)
        THEN [start |-> ParseInt(Match(onwardsRegex, normalized)[1][1]),
              end |-> totalDays]
        ELSE [start |-> 1, end |-> totalDays]

\* EntryQuantity counting end - start days
EntryQuantityExclusive(entry, daysSupply) ==
    IF IsDefined(entry.dayRange) /\ entry.dayRange[1] # ""
    THEN LET dayRange == parseDayRange(entry.dayRange[1], daysSupply)
             daysForEntry == dayRange.end - dayRange.start
         IN  IF daysForEntry > 0
             THEN RMul(RMul(entry.dose, entry.frequency), Num(daysForEntry))
             ELSE Num(0)
    ELSE RMul(RMul(entry.dose, entry.frequency), Num(daysSupply))

\* the contribution of one schedule entry to the complex total
EntryQuantity(entry, daysSupply) ==
    IF IsDefined(entry.dayRange) /\ entry.dayRange[1] # ""
    THEN LET dayRange == parseDayRange(entry.dayRange[1], daysSupply)
             daysForEntry == dayRange.end - dayRange.start + 1
         IN  IF daysForEntry > 0
             THEN RMul(RMul(entry.dose, entry.frequency), Num(daysForEntry))
             ELSE Num(0)
    ELSE RMul(RMul(entry.dose, entry.frequency), Num(daysSupply))

RECURSIVE ScheduleQuantity(_, _, _)
ScheduleQuantity(schedule, k, daysSupply) ==
    IF k > Len(schedule) THEN Num(0)
    ELSE RAdd(EntryQuantity(schedule[k], daysSupply),
              ScheduleQuantity(schedule, k + 1, daysSupply))

\* the PRN branch of calculateTotalQuantity
PrnQuantity(parsedSIG, daysSupply) ==
    LET avgDose == IF IsDefined(parsedSIG.averageDailyDose)
                      /\ parsedSIG.averageDailyDose[1].n # 0
                   THEN parsedSIG.averageDailyDose[1]
                   ELSE parsedSIG.dose
        estimatedFrequency == IF parsedSIG.frequency.n > 0
                              THEN RMul(parsedSIG.frequency, Rat(1, 2))
                              ELSE Num(2)
    IN  Num(Ceil(RMul(RMul(avgDose, estimatedFrequency), Num(daysSupply))))

\* CalculatorService.calculateTotalQuantity
calculateTotalQuantity(parsedSIG, daysSupply) ==
    IF IsDefined(parsedSIG.prn) /\ parsedSIG.prn[1]
    THEN PrnQuantity(parsedSIG, daysSupply)
    ELSE IF /\ IsDefined(parsedSIG.isComplex) /\ parsedSIG.isComplex[1]
            /\ IsDefined(parsedSIG.schedule) /\ Len(parsedSIG.schedule[1]) > 0
    THEN ScheduleQuantity(parsedSIG.schedule[1], 1, daysSupply)
    ELSE RMul(RMul(parsedSIG.dose, parsedSIG.frequency), Num(daysSupply))

\* CalculatorService.normalizeUnit (the same unitMap as the parser's)
calculatorNormalizeUnit(unit) ==
    LET normalized == ToLowerCase(unit)
    IN  CASE normalized \in {"tablet", "tab", "tablets"} -> "tablet"
          [] normalized \in {"capsule", "cap", "capsules"} -> "capsule"
          [] normalized = "ml" -> "ml"
          [] normalized = "mg" -> "mg"
          [] normalized = "g" -> "g"
          [] normalized \in {"unit", "units"} -> "unit"
          [] normalized \in {"puff", "puffs"} -> "puff"
          [] normalized \in {"dose", "doses"} -> "dose"
          [] OTHER -> normalized

\* CalculatorService.matchesUnit
matchesUnit(unit1, unit2) ==
    calculatorNormalizeUnit(unit1) = calculatorNormalizeUnit(unit2)

\* an NDC record: status, and packageInfo (optional) with unit and an
\* optional quantity
HasQuantity(ndc) ==
    IsDefined(ndc.packageInfo) /\ IsDefined(ndc.packageInfo[1].quantity)

\* ndc.packageInfo?.quantity || 0
SizeOrZero(ndc) == IF HasQuantity(ndc) THEN ndc.packageInfo[1].quantity[1] ELSE 0

\* Array.prototype.sort is stable: an element goes after the elements
\* that do not compare greater than it
RECURSIVE InsertAscending(_, _)
InsertAscending(sorted, ndc) ==
    IF Len(sorted) = 0 THEN <<ndc>>
    ELSE IF SizeOrZero(sorted[Len(sorted)]) - SizeOrZero(ndc) <= 0
    THEN Append(sorted, ndc)
    ELSE Append(InsertAscending(SubSeq(sorted, 1, Len(sorted) - 1), ndc),
                sorted[Len(sorted)])

RECURSIVE SortAscending(_)
SortAscending(ndcs) ==
    IF Len(ndcs) = 0 THEN <<>>
    ELSE InsertAscending(SortAscending(SubSeq(ndcs, 1, Len(ndcs) - 1)), ndcs[Len(ndcs)])

RECURSIVE InsertDescending(_, _)
InsertDescending(sorted, ndc) ==
    IF Len(sorted) = 0 THEN <<ndc>>
    ELSE IF SizeOrZero(ndc) - SizeOrZero(sorted[Len(sorted)]) <= 0
    THEN Append(sorted, ndc)
    ELSE Append(InsertDescending(SubSeq(sorted, 1, Len(sorted) - 1), ndc),
                sorted[Len(sorted)])

RECURSIVE SortDescending(_)
SortDescending(ndcs) ==
    IF Len(ndcs) = 0 THEN <<>>
    ELSE InsertDescending(SortDescending(SubSeq(ndcs, 1, Len(ndcs) - 1)), ndcs[Len(ndcs)])

\* a DispenseRecommendation; underfill is a field no code assigns
Recommendation(ndc, packageCount, totalQuantity, exactMatch, overfill, variancePercentage) ==
    [ndc |-> ndc, packageCount |-> packageCount, totalQuantity |-> totalQuantity,
     unit |-> ndc.packageInfo[1].unit, exactMatch |-> exactMatch,
     overfill |-> overfill, underfill |-> Undefined,
     variancePercentage |-> variancePercentage]

\* the greedy loop of findOptimalCombination from the k-th package on
RECURSIVE CombinationLoop(_, _, _, _)
CombinationLoop(sorted, k, remaining, totalQuantity) ==
    IF k > Len(sorted) THEN <<>>
    ELSE IF ~HasQuantity(sorted[k]) \/ RLeq(remaining, Num(0)) THEN <<>>
    ELSE LET ndc == sorted[k]
             packageSize == ndc.packageInfo[1].quantity[1]
             packagesNeeded == Floor(RDiv(remaining, Num(packageSize)))
             overfill == RSub(Num(packagesNeeded * packageSize), remaining)
         IN  IF packagesNeeded > 0
             THEN <<Recommendation(ndc, packagesNeeded, Num(packagesNeeded * packageSize),
                                   FALSE, Some(overfill),
                                   Some(RMul(RDiv(overfill, totalQuantity), Num(100))))>>
                  \o CombinationLoop(sorted, k + 1,
                                     RSub(remaining, Num(packagesNeeded * packageSize)),
                                     totalQuantity)
             ELSE CombinationLoop(sorted, k + 1, remaining, totalQuantity)

\* findOptimalCombination visiting the packages in ascending order of size
findOptimalCombinationAscending(totalQuantity, ndcs) ==
    LET sorted == SortAscending(SelectSeq(ndcs,
                      LAMBDA ndc : IsDefined(ndc.packageInfo) /\ ndc.status = "ACTIVE"))
    IN  CombinationLoop(sorted, 1, totalQuantity, totalQuantity)

\* CalculatorService.findOptimalCombination
findOptimalCombination(totalQuantity, ndcs) ==
    LET sorted == SortDescending(SelectSeq(ndcs,
                      LAMBDA ndc : IsDefined(ndc.packageInfo) /\ ndc.status = "ACTIVE"))
    IN  CombinationLoop(sorted, 1, totalQuantity, totalQuantity)

\* ActiveNDCs without the status test
ActiveNDCsAnyStatus(unit, availableNDCs) ==
    SelectSeq(availableNDCs,
              LAMBDA ndc : /\ IsDefined(ndc.packageInfo)
                           /\ matchesUnit(ndc.packageInfo[1].unit, unit))

\* ActiveNDCs without the unit test
ActiveNDCsAnyUnit(unit, availableNDCs) ==
    SelectSeq(availableNDCs,
              LAMBDA ndc : ndc.status = "ACTIVE" /\ IsDefined(ndc.packageInfo))

\* the filter of selectOptimalPackages
ActiveNDCs(unit, availableNDCs) ==
    SelectSeq(availableNDCs,
              LAMBDA ndc : /\ ndc.status = "ACTIVE"
                           /\ IsDefined(ndc.packageInfo)
                           /\ matchesUnit(ndc.packageInfo[1].unit, unit))

\* ExactMatchIndex of a comparison that never succeeds
ExactMatchIndexNever(totalQuantity, sortedNDCs) == 0

\* sortedNDCs.find(size === totalQuantity): the position, or 0
ExactMatchIndex(totalQuantity, sortedNDCs) ==
    IF \E k \in 1..Len(sortedNDCs) : Num(SizeOrZero(sortedNDCs[k])) = totalQuantity
    THEN CHOOSE k \in 1..Len(sortedNDCs) :
            /\ Num(SizeOrZero(sortedNDCs[k])) = totalQuantity
            /\ \A j \in 1..(k - 1) : Num(SizeOrZero(sortedNDCs[j])) # totalQuantity
    ELSE 0

\* the candidate a package gives in the best-single-package loop
SingleCandidate(ndc, totalQuantity) ==
    LET packageSize == ndc.packageInfo[1].quantity[1]
        packagesNeeded == Ceil(RDiv(totalQuantity, Num(packageSize)))
        totalFromPackages == Num(packagesNeeded * packageSize)
        variance == RSub(totalFromPackages, totalQuantity)
        variancePercent == RMul(RDiv(variance, totalQuantity), Num(100))
    IN  [variance |-> variance, variancePercent |-> variancePercent,
         rec |-> Recommendation(ndc, packagesNeeded, totalFromPackages,
                                variance = Num(0),
                                IF RLess(Num(0), variance) THEN Some(variance) ELSE Undefined,
                                Some(variancePercent))]

\* Improves with <= in place of <
ImprovesOrTies(candidate, bestMatch) ==
    /\ RLeq(Num(0), candidate.variance)
    /\ \/ ~IsDefined(bestMatch)
       \/ RLeq(candidate.variancePercent, bestMatch[1].variancePercentage[1])

\* variance >= 0 && variancePercent < bestVariance (bestVariance starts
\* at Infinity, here an undefined bestMatch)
Improves(candidate, bestMatch) ==
    /\ RLeq(Num(0), candidate.variance)
    /\ \/ ~IsDefined(bestMatch)
       \/ RLess(candidate.variancePercent, bestMatch[1].variancePercentage[1])

\* the best-single-package loop from the k-th package on
RECURSIVE BestMatchLoop(_, _, _, _)
BestMatchLoop(sortedNDCs, k, totalQuantity, bestMatch) ==
    IF k > Len(sortedNDCs) THEN bestMatch
    ELSE IF ~HasQuantity(sortedNDCs[k])
    THEN BestMatchLoop(sortedNDCs, k + 1, totalQuantity, bestMatch)
    ELSE LET candidate == SingleCandidate(sortedNDCs[k], totalQuantity)
         IN  BestMatchLoop(sortedNDCs, k + 1, totalQuantity,
                           IF Improves(candidate, bestMatch)
                           THEN Some(candidate.rec) ELSE bestMatch)

\* TriesCombination with >= in place of >
TriesCombinationInclusive(bestMatch) ==
    \/ ~IsDefined(bestMatch)
    \/ RLeq(Num(20), bestMatch[1].variancePercentage[1])

\* !bestMatch || bestVariance > 20
TriesCombination(bestMatch) ==
    \/ ~IsDefined(bestMatch)
    \/ RLess(Num(20), bestMatch[1].variancePercentage[1])

\* CalculatorService.selectOptimalPackages: the plan returned, and the
\* return statement taken ("noActive", "exactMatch", "combination" or
\* "bestMatch"), which is not part of the result
selectOptimalPackages(totalQuantity, unit, availableNDCs) ==
    LET activeNDCs == ActiveNDCs(unit, availableNDCs)
        sortedNDCs == SortAscending(activeNDCs)
        exact == ExactMatchIndex(totalQuantity, sortedNDCs)
        bestMatch == BestMatchLoop(sortedNDCs, 1, totalQuantity, Undefined)
        combination == findOptimalCombination(totalQuantity, sortedNDCs)
    IN  IF Len(activeNDCs) = 0
        THEN [recommendations |-> <<>>, step |-> "noActive"]
        ELSE IF exact # 0 /\ HasQuantity(sortedNDCs[exact])
        THEN [recommendations |->
                 <<Recommendation(sortedNDCs[exact], 1,
                                  Num(sortedNDCs[exact].packageInfo[1].quantity[1]),
                                  TRUE, Undefined, Some(Num(0)))>>,
              step |-> "exactMatch"]
        ELSE IF TriesCombination(bestMatch) /\ Len(combination) > 0
        THEN [recommendations |-> combination, step |-> "combination"]
        ELSE [recommendations |-> IF IsDefined(bestMatch) THEN <<bestMatch[1]>> ELSE <<>>,
              step |-> "bestMatch"]

\* Severity with >= in place of >
SeverityInclusive(percent) ==
    IF RLeq(Num(20), percent) THEN "high"
    ELSE IF RLeq(Num(10), percent) THEN "medium"
    ELSE "low"

\* the severity of an overfill or underfill percentage
Severity(percent) ==
    IF RLess(Num(20), percent) THEN "high"
    ELSE IF RLess(Num(10), percent) THEN "medium"
    ELSE "low"

\* rec.variancePercentage || 0
PercentOrZero(rec) ==
    IF IsDefined(rec.variancePercentage) THEN rec.variancePercentage[1] ELSE Num(0)

\* the warnings detectOverfillUnderfill pushes for one recommendation
WarningsFor(rec) ==
    (IF IsDefined(rec.overfill) /\ rec.overfill[1].n # 0
     THEN <<[type |-> "OVERFILL", severity |-> Severity(PercentOrZero(rec)),
             amount |-> rec.overfill[1], percent |-> PercentOrZero(rec),
             recommendation |-> rec.ndc.ndc]>>
     ELSE <<>>)
    \o
    (IF IsDefined(rec.underfill) /\ rec.underfill[1].n # 0
     THEN <<[type |-> "UNDERFILL",
             severity |-> Severity(Rat(Abs(PercentOrZero(rec).n), PercentOrZero(rec).d)),
             amount |-> rec.underfill[1],
             percent |-> Rat(Abs(PercentOrZero(rec).n), PercentOrZero(rec).d),
             recommendation |-> rec.ndc.ndc]>>
     ELSE <<>>)

\* CalculatorService.detectOverfillUnderfill
RECURSIVE detectOverfillUnderfill(_, _)
detectOverfillUnderfill(recommendations, totalQuantity) ==
    IF Len(recommendations) = 0 THEN <<>>
    ELSE WarningsFor(recommendations[1])
         \o detectOverfillUnderfill(Tail(recommendations), totalQuantity)

\* the threshold of the UNUSUAL_QUANTITY warning
UnusualQuantity == 1000

\* CallerWarnings with >= in place of > at the unusual quantity
CallerWarningsInclusive(totalQuantity, availableNDCs) ==
    LET inactiveNDCs == SelectSeq(availableNDCs, LAMBDA ndc : ndc.status = "INACTIVE")
    IN  (IF Len(inactiveNDCs) > 0
         THEN <<[type |-> "INACTIVE_NDC", severity |-> "high",
                 amount |-> Num(Len(inactiveNDCs)), percent |-> Num(0),
                 recommendation |-> 0]>>
         ELSE <<>>)
        \o
        (IF RLeq(Num(UnusualQuantity), totalQuantity)
         THEN <<[type |-> "UNUSUAL_QUANTITY", severity |-> "medium",
                 amount |-> totalQuantity, percent |-> Num(0),
                 recommendation |-> 0]>>
         ELSE <<>>)

\* the warnings calculate appends after detectOverfillUnderfill
CallerWarnings(totalQuantity, availableNDCs) ==
    LET inactiveNDCs == SelectSeq(availableNDCs, LAMBDA ndc : ndc.status = "INACTIVE")
    IN  (IF Len(inactiveNDCs) > 0
         THEN <<[type |-> "INACTIVE_NDC", severity |-> "high",
                 amount |-> Num(Len(inactiveNDCs)), percent |-> Num(0),
                 recommendation |-> 0]>>
         ELSE <<>>)
        \o
        (IF RLess(Num(UnusualQuantity), totalQuantity)
         THEN <<[type |-> "UNUSUAL_QUANTITY", severity |-> "medium",
                 amount |-> totalQuantity, percent |-> Num(0),
                 recommendation |-> 0]>>
         ELSE <<>>)

(***************************************************************************)
(* Inputs.                                                                 *)
(***************************************************************************)
MaxDose == 2

MaxDays == 2

MaxTaperDay == 2

MaxNDCs == 2

MaxSize == 4

MaxTarget == 9

DoseNumerals == {NumberToString(k) : k \in 1..MaxDose}

\* the days' supplies of the documented examples, and the small ones
DaysSupplies == (1..MaxDays) \cup {10, 30}

\* the unit words of the patterns and the plurals the unitMap knows
UnitNames ==
    {UnitWords[k] : k \in 1..Len(UnitWords)} \cup {"tablets", "capsules"}

FrequencyKeywords == {"once", "twice", "three times", "four times"}

SimpleSig(d, u, f) == "Take " \o d \o " " \o u \o " " \o f \o " daily"

SimpleSigs ==
    {SimpleSig(d, u, f) : d \in DoseNumerals \cup {"1.5"}, u \in UnitNames,
                          f \in FrequencyKeywords}

RangeSuffixes ==
    {"", " as needed", " twice daily", " four times daily",
     " three times daily as needed",
     " every 4-6 hours as needed for pain"}

RangeSig(n, m, u, suffix) == "Take " \o n \o "-" \o m \o " " \o u \o suffix

RangeSigs ==
    {RangeSig(n, m, u, x) : n \in DoseNumerals, m \in DoseNumerals,
                            u \in {"tablet", "tablets", "ml"}, x \in RangeSuffixes}

MorningPhrases == {" in the morning", " morning"}

\* the second dose with and without its unit, at each evening keyword
EveningPhrases ==
    {"at bedtime", "tablet at bedtime", "in the evening", "at night", "at pm",
     "at dinner"}

MultiTimeSig(n, u, morning, m, evening) ==
    "Take " \o n \o " " \o u \o morning \o " and " \o m \o " " \o evening

MultiTimeUnits == {"tablet", "tablets", "puffs"}

MultiTimeSigs ==
    {MultiTimeSig(n, u, a, m, e) :
        n \in DoseNumerals, u \in MultiTimeUnits, a \in MorningPhrases,
        m \in DoseNumerals, e \in EveningPhrases}

TaperingSig(n, u1, d, m, u2) ==
    "Take " \o n \o " " \o u1 \o " on day " \o d \o ", then " \o m \o " " \o u2 \o " daily"

TaperingUnits == {"tablet", "tablets", "capsules"}

TaperingSigs ==
    {TaperingSig(n, u1, NumberToString(d), m, u2) :
        n \in DoseNumerals, u1 \in TaperingUnits, d \in 1..MaxTaperDay,
        m \in DoseNumerals, u2 \in {"tablet"}}

\* other instructions of the documentation, and texts no pattern matches
OtherSigs ==
    {"", "   ", "hello", "Follow label", "Apply thin layer", "Use sparingly",
     "Take one daily", "Take 1", "tablet", "twice", "prn",
     "Take 2 capsules every 8 hours", "Take 5ml three times daily",
     "Give 5 ml twice daily", "Take 2 puffs every 4 hours as needed",
     "Take 1 tablet with breakfast, lunch, and dinner",
     "Take 2 tablets with meals, and dinner",
     "Take 3 tablets on days 1-3, then 1 tablet daily",
     "Take 1 tablet every 4-6 hours as needed for pain",
     "Take 1 tablet in the morning", "Take 25 ml four times daily",
     "Using 2 puffs daily", "Stable dose 1 cap daily"}

\* texts that two of the range, multi-time, tapering and meal patterns match
\* (each pattern is searched anywhere in the text), one for each pair
OverlapSigs ==
    {"Take 1-2 tablet in the morning and 1 at bedtime",
     "Take 1-2 tablet on day 1, then 1 tablet daily",
     "Take 1-2 tablet with breakfast, lunch, and dinner",
     "1 tab am, 1 at pm, 2 tab 1 then 1 tab qd",
     "1 tab am, 1 at pm, 2 g with food, meal",
     "1 g with food, meal 2 tab 1 then 1 tab qd"}

\* the PRN keywords, and one instruction of each tier to write them after
PrnKeywords == {"as needed", "prn", "when needed", "if needed"}

PrnBases ==
    {"Take 1-2 tablets", "Take 1 tablet in the morning and 1 at bedtime",
     "Take 2 tablet on day 1, then 1 tablet daily",
     "Take 1 tablet with breakfast, lunch, and dinner", "Take 1 tablet twice daily"}

PrnSig(base, keyword) == base \o " " \o keyword

PrnSigs == {PrnSig(base, keyword) : base \in PrnBases, keyword \in PrnKeywords}

\* texts of the range, multi-time, tapering and meal patterns whose first
\* dose is a decimal numeral
DecimalSigs ==
    {"Take 0.5-1 tablet", "Take 1.5 tab am, 1 at pm",
     "Take 1.5 tab on day 1, then 1 tab qd", "Take 1.5 tab with food, lunch"}

Sigs ==
    SimpleSigs \cup RangeSigs \cup MultiTimeSigs \cup TaperingSigs \cup OtherSigs
        \cup PrnBases \cup PrnSigs \cup OverlapSigs \cup DecimalSigs

\* the instructions parsed with the AI strategy enabled as well as without
\* it, and parsed a second time
AISigs ==
    {"Take 1 tablet twice daily", "Take 1-2 tablets as needed", "hello"}

\* how the request of parseWithAI can end without a usable object: fetch
\* rejects, the status is not OK, the reply has no content, the content is
\* not JSON, the content is the JSON null, or unit is not a string (both
\* make normalizeParsedSIG raise a TypeError)
AIFailures ==
    {"fetchRejects", "statusNotOk", "noContent", "invalidJSON", "jsonNull",
     "unitNotString"}

AIObject(dose, unit, frequency, isComplex, schedule, prn, averageDailyDose) ==
    [dose |-> dose, unit |-> unit, frequency |-> frequency, isComplex |-> isComplex,
     schedule |-> schedule, prn |-> prn, averageDailyDose |-> averageDailyDose,
     instructions |-> Undefined]

\* JSON objects the AI strategy may answer with (the examples of its
\* prompt, an empty object, and a complex object without schedule)
AIReplies ==
    {AIObject(Some(Num(1)), Some("tablets"), Some(Num(2)), Some(FALSE), Undefined,
              Undefined, Undefined),
     AIObject(Some(Num(1)), Some("tablet"), Some(Num(0)), Some(FALSE), Undefined,
              Some(TRUE), Some(Rat(3, 2))),
     AIObject(Some(Num(1)), Some("tablet"), Some(Num(2)), Some(TRUE),
              Some(<<ScheduleEntry(Num(1), Num(1), Some("morning"), Undefined),
                     ScheduleEntry(Num(1), Num(1), Some("bedtime"), Undefined)>>),
              Undefined, Some(Num(2))),
     AIObject(Some(Num(1)), Some("tablet"), Some(Num(1)), Some(TRUE),
              Some(<<ScheduleEntry(Num(2), Num(1), Undefined, Some("day 1")),
                     ScheduleEntry(Num(1), Num(1), Undefined, Some("days 2+"))>>),
              Undefined, Some(Rat(3, 2))),
     AIObject(Some(Num(1)), Some("tablet"), Some(Num(2)), Some(TRUE), Undefined,
              Undefined, Undefined),
     AIObject(Undefined, Undefined, Undefined, Undefined, Undefined, Undefined,
              Undefined)}

\* an NDC record; id is its position in the candidate list
NDC(id, status, packageInfo) == [ndc |-> id, status |-> status, packageInfo |-> packageInfo]

PackageInfo(unit, quantity) == [unit |-> unit, quantity |-> quantity]

\* the kinds of candidate of the small lists
PackageKinds ==
    {[status |-> "ACTIVE", packageInfo |-> Some(PackageInfo("TABLET", Some(q)))] :
        q \in 1..MaxSize}
    \cup
    {[status |-> "ACTIVE", packageInfo |-> Some(PackageInfo("TABLET", Undefined))],
     [status |-> "ACTIVE", packageInfo |-> Undefined],
     [status |-> "ACTIVE", packageInfo |-> Some(PackageInfo("tab", Some(2)))],
     [status |-> "ACTIVE", packageInfo |-> Some(PackageInfo("CAPSULE", Some(3)))],
     [status |-> "INACTIVE", packageInfo |-> Some(PackageInfo("TABLET", Some(MaxSize)))],
     [status |-> "UNKNOWN", packageInfo |-> Some(PackageInfo("TABLET", Some(1)))]}

WithIds(kinds) == [k \in 1..Len(kinds) |-> NDC(k, kinds[k].status, kinds[k].packageInfo)]

SmallLists ==
    {WithIds(kinds) : kinds \in UNION {[1..n -> PackageKinds] : n \in 0..MaxNDCs}}

Bottle(unit, quantity) ==
    [status |-> "ACTIVE", packageInfo |-> Some(PackageInfo(unit, Some(quantity)))]

\* the candidate lists of the documented scenarios
Catalogs ==
    {WithIds(<<Bottle("TABLET", 30)>>),
     WithIds(<<Bottle("TABLET", 90)>>),
     WithIds(<<Bottle("TABLET", 30), Bottle("TABLET", 90)>>),
     WithIds(<<Bottle("TABLET", 30), Bottle("TABLET", 20), Bottle("TABLET", 10)>>),
     WithIds(<<Bottle("ML", 100)>>),
     WithIds(<<Bottle("TABLET", 55)>>),
     WithIds(<<Bottle("TABLET", 31), Bottle("TABLET", 65)>>),
     WithIds(<<[status |-> "INACTIVE",
                packageInfo |-> Some(PackageInfo("TABLET", Some(60)))],
               Bottle("TABLET", 100)>>),
     <<>>}

\* the candidate lists calculate is called with
PipelineCatalogs ==
    {WithIds(<<Bottle("TABLET", 30), Bottle("TABLET", 90)>>),
     WithIds(<<Bottle("TABLET", 90)>>),
     WithIds(<<Bottle("ML", 100)>>),
     WithIds(<<[status |-> "INACTIVE",
                packageInfo |-> Some(PackageInfo("TABLET", Some(60)))],
               Bottle("TABLET", 100)>>),
     WithIds(<<[status |-> "UNKNOWN",
                packageInfo |-> Some(PackageInfo("TABLET", Some(60)))],
               Bottle("TABLET", 30)>>)}

\* the quantities and units selectOptimalPackages is called with directly
SmallTargets == {Num(k) : k \in 1..MaxTarget} \cup {Rat(3, 2), Rat(15, 2)}

CatalogTargets == {Num(60), Num(100), Num(120), Num(150)}

TargetUnits == {"tablet", "tablets"}

\* the arguments calculateTotalQuantity is called with directly: a ParsedSIG
\* of each shape, and days' supplies within and outside the contract
DirectSigs ==
    {"Take 1 tablet twice daily", "Take 1-2 tablets as needed",
     "Take 2 tablet on day 1, then 1 tablet daily"}

DirectDaysSupplies == (-1)..MaxDays

\* ParsedSIG values calculateTotalQuantity is also called with: what
\* normalizeParsedSIG returns for an as-needed reply whose averageDailyDose is
\* 0, for one that is as-needed and complex at once, for one without
\* averageDailyDose, and for a schedule with a range of days, an empty range,
\* a dayRange outside the grammar and an entry without dayRange
DirectParsedSIGs ==
    {normalizeParsedSIG(reply, "prn") : reply \in
        {AIObject(Some(Num(1)), Some("tablet"), Some(Num(0)), Some(FALSE), Undefined,
                  Some(TRUE), Some(Num(0))),
         AIObject(Some(Num(1)), Some("tablet"), Some(Num(3)), Some(TRUE),
                  Some(<<ScheduleEntry(Num(2), Num(1), Undefined, Some("day 1")),
                         ScheduleEntry(Num(1), Num(1), Undefined, Some("days 2+"))>>),
                  Some(TRUE), Some(Rat(3, 2))),
         AIObject(Some(Num(2)), Some("tablet"), Some(Num(3)), Some(FALSE), Undefined,
                  Some(TRUE), Undefined),
         AIObject(Some(Num(1)), Some("tablet"), Some(Num(1)), Some(TRUE),
                  Some(<<ScheduleEntry(Num(2), Num(1), Undefined, Some("days 1-2")),
                         ScheduleEntry(Num(1), Num(1), Undefined, Some("days 2-1")),
                         ScheduleEntry(Num(1), Num(1), Undefined, Some("weekly")),
                         ScheduleEntry(Rat(1, 2), Num(1), Some("bedtime"), Undefined)>>),
                  Some(FALSE), Some(Num(2)))}}

\* the instructions of the requests POST /api/calculate finds no package for
PostSigs ==
    {"Take 1 tablet twice daily", "Take 1-2 tablets as needed",
     "Take 2 tablet on day 1, then 1 tablet daily", "hello"}

\* the number that is not a number
NaN == [n |-> 0, d |-> 0]

\* the promise an async method returns to a caller that does not await it:
\* an object with no member of a ParsedSIG
PendingPromise == [state |-> "pending"]

\* value.name as JavaScript reads it: undefined on a promise (only unit is
\* read this way)
MemberOfValue(value, name) ==
    IF value = PendingPromise THEN Undefined ELSE Some(value[name])

\* calculateTotalQuantity on whatever value it is handed: on a promise prn
\* and isComplex read undefined, and the simple calculation is
\* undefined * undefined * daysSupply
calculateTotalQuantityOfValue(value, daysSupply) ==
    IF value = PendingPromise THEN NaN ELSE calculateTotalQuantity(value, daysSupply)

\* what JSON.stringify writes for a ParsedSIG: its members, those that are
\* undefined left out
JSONOfParsedSIG(parsed) ==
    [dose |-> Some(parsed.dose), unit |-> Some(parsed.unit),
     frequency |-> Some(parsed.frequency), prn |-> parsed.prn,
     isComplex |-> parsed.isComplex, schedule |-> parsed.schedule,
     averageDailyDose |-> parsed.averageDailyDose, maxDose |-> parsed.maxDose,
     instructions |-> Some(parsed.instructions)]

\* what JSON.stringify writes for a value: {} for a promise, which has no
\* enumerable member of its own
JSONOfValue(value) ==
    IF value = PendingPromise
    THEN [dose |-> Undefined, unit |-> Undefined, frequency |-> Undefined,
          prn |-> Undefined, isComplex |-> Undefined, schedule |-> Undefined,
          averageDailyDose |-> Undefined, maxDose |-> Undefined,
          instructions |-> Undefined]
    ELSE JSONOfParsedSIG(value)

\* what JSON.stringify writes for a number: null, here Undefined, for NaN
\* and the infinities
JSONOfNumber(x) == IF x.d = 0 THEN Undefined ELSE Some(x)

(***************************************************************************)
(* The state: one invocation of the pipeline of CalculatorService.calculate *)
(* (parseSIG, calculateTotalQuantity, selectOptimalPackages, warnings), or  *)
(* one direct call of selectOptimalPackages or calculateTotalQuantity, or   *)
(* one request to POST /api/calculate that finds no package.               *)
(***************************************************************************)
VARIABLES
    op,              \* the method invoked: "calculate" or "selectOptimalPackages"
    pc,              \* the position of the invocation
    sig,             \* input.sig
    useAI,           \* SIGParserService.useAI (an API key is configured)
    parsedBy,        \* "none", "rules" or "ai": the strategy whose result was returned
    parsedSIG,       \* the ParsedSIG, once parseSIG has returned
    daysSupply,      \* input.daysSupply
    totalQuantity,   \* the quantity to dispense
    unit,            \* the unit handed to selectOptimalPackages
    availableNDCs,   \* the candidate list
    recommendations, \* the dispense plan
    step,            \* the return statement selectOptimalPackages took
    warnings,        \* the warnings of the result
    first,           \* the result of an earlier invocation with the same input
    response         \* the response of POST /api/calculate, once it is built

vars ==
    <<op, pc, sig, useAI, parsedBy, parsedSIG, daysSupply, totalQuantity, unit,
      availableNDCs, recommendations, step, warnings, first, response>>

Init ==
    /\ pc = "start"
    /\ parsedBy = "none"
    /\ recommendations = <<>>
    /\ step = "none"
    /\ warnings = <<>>
    /\ first = Undefined
    /\ response = Undefined
    /\ \/ /\ op = "calculate"
          /\ sig \in Sigs
          /\ useAI \in IF sig \in AISigs THEN BOOLEAN ELSE {FALSE}
          /\ parsedSIG = Undefined
          /\ daysSupply = 0
          /\ totalQuantity = Num(0)
          /\ unit = ""
          /\ availableNDCs = <<>>
       \/ /\ op = "selectOptimalPackages"
          /\ sig = ""
          /\ useAI = FALSE
          /\ parsedSIG = Undefined
          /\ daysSupply = 0
          /\ \/ /\ totalQuantity \in SmallTargets
                /\ unit = "tablet"
                /\ availableNDCs \in SmallLists
             \/ /\ totalQuantity \in CatalogTargets
                /\ unit \in TargetUnits
                /\ availableNDCs \in Catalogs
       \/ /\ op = "calculateTotalQuantity"
          /\ \/ /\ sig \in DirectSigs
                /\ parsedSIG = Some(parseWithRules(sig))
             \/ /\ sig = "prn"
                /\ parsedSIG \in {Some(parsed) : parsed \in DirectParsedSIGs}
          /\ useAI = FALSE
          /\ daysSupply \in DirectDaysSupplies
          /\ totalQuantity = Num(0)
          /\ unit = ""
          /\ availableNDCs = <<>>
       \/ /\ op = "POST"
          /\ sig \in PostSigs
          /\ useAI = FALSE
          /\ parsedSIG = Undefined
          /\ daysSupply \in DaysSupplies
          /\ totalQuantity = Num(0)
          /\ unit = ""
          /\ availableNDCs = <<>>

\* parseSIG without the AI strategy: parseWithRules
ParseSIG ==
    /\ pc = "start" /\ op = "calculate" /\ ~useAI
    /\ parsedSIG' = Some(parseWithRules(sig))
    /\ parsedBy' = "rules"
    /\ pc' = "parsed"
    /\ UNCHANGED <<op, sig, useAI, daysSupply, totalQuantity, unit, availableNDCs,
                   recommendations, step, warnings, first, response>>

\* parseSIG with the AI strategy: parseWithAI sends its request
RequestAI ==
    /\ pc = "start" /\ op = "calculate" /\ useAI
    /\ pc' = "awaitingAI"
    /\ UNCHANGED <<op, sig, useAI, parsedBy, parsedSIG, daysSupply, totalQuantity,
                   unit, availableNDCs, recommendations, step, warnings, first, response>>

\* the request fails: parseWithAI catches, logs and returns null, and
\* parseSIG goes on to parseWithRules
AIFails ==
    /\ pc = "awaitingAI"
    /\ \E failure \in AIFailures :
          /\ parsedSIG' = Some(parseWithRules(sig))
          /\ parsedBy' = "rules"
    /\ pc' = "parsed"
    /\ UNCHANGED <<op, sig, useAI, daysSupply, totalQuantity, unit, availableNDCs,
                   recommendations, step, warnings, first, response>>

\* the request answers with a JSON object: normalizeParsedSIG
AIAnswers ==
    /\ pc = "awaitingAI"
    /\ \E reply \in AIReplies :
          parsedSIG' = Some(normalizeParsedSIG(reply, sig))
    /\ parsedBy' = "ai"
    /\ pc' = "parsed"
    /\ UNCHANGED <<op, sig, useAI, daysSupply, totalQuantity, unit, availableNDCs,
                   recommendations, step, warnings, first, response>>

\* calculate: calculateTotalQuantity(parsedSIG, input.daysSupply)
CalculateTotalQuantity ==
    /\ pc = "parsed"
    /\ \E days \in IF IsDefined(first) THEN {first[1].daysSupply} ELSE DaysSupplies :
          /\ daysSupply' = days
          /\ totalQuantity' = calculateTotalQuantity(parsedSIG[1], days)
    /\ unit' = parsedSIG[1].unit
    /\ pc' = "quantified"
    /\ UNCHANGED <<op, sig, useAI, parsedBy, parsedSIG, availableNDCs,
                   recommendations, step, warnings, first, response>>

\* calculate: selectOptimalPackages(totalQuantity, parsedSIG.unit, availableNDCs)
SelectForCalculate ==
    /\ pc = "quantified"
    /\ \E ndcs \in IF IsDefined(first) THEN {first[1].availableNDCs}
                   ELSE PipelineCatalogs :
          LET selection == selectOptimalPackages(totalQuantity, unit, ndcs)
          IN  /\ availableNDCs' = ndcs
              /\ recommendations' = selection.recommendations
              /\ step' = selection.step
    /\ pc' = "selected"
    /\ UNCHANGED <<op, sig, useAI, parsedBy, parsedSIG, daysSupply, totalQuantity,
                   unit, warnings, first, response>>

\* calculate: the warnings, and the result is returned
Warn ==
    /\ pc = "selected" /\ op = "calculate"
    /\ warnings' = detectOverfillUnderfill(recommendations, totalQuantity)
                     \o CallerWarnings(totalQuantity, availableNDCs)
    /\ pc' = "done"
    /\ UNCHANGED <<op, sig, useAI, parsedBy, parsedSIG, daysSupply, totalQuantity,
                   unit, availableNDCs, recommendations, step, first, response>>

\* a direct call of selectOptimalPackages
SelectOptimalPackages ==
    /\ pc = "start" /\ op = "selectOptimalPackages"
    /\ LET selection == selectOptimalPackages(totalQuantity, unit, availableNDCs)
       IN  /\ recommendations' = selection.recommendations
           /\ step' = selection.step
    /\ pc' = "selected"
    /\ UNCHANGED <<op, sig, useAI, parsedBy, parsedSIG, daysSupply, totalQuantity,
                   unit, availableNDCs, warnings, first, response>>

\* a direct call of calculateTotalQuantity; the method has no throw
\* statement, so the call returns
CalculateTotalQuantityDirect ==
    /\ pc = "start" /\ op = "calculateTotalQuantity"
    /\ totalQuantity' = calculateTotalQuantity(parsedSIG[1], daysSupply)
    /\ pc' = "done"
    /\ UNCHANGED <<op, sig, useAI, parsedBy, parsedSIG, daysSupply, unit,
                   availableNDCs, recommendations, step, warnings, first, response>>

\* a direct call of detectOverfillUnderfill with the plan just returned
DetectOverfillUnderfill ==
    /\ pc = "selected" /\ op = "selectOptimalPackages"
    /\ warnings' = detectOverfillUnderfill(recommendations, totalQuantity)
    /\ pc' = "done"
    /\ UNCHANGED <<op, sig, useAI, parsedBy, parsedSIG, daysSupply, totalQuantity,
                   unit, availableNDCs, recommendations, step, first, response>>

\* calculate is invoked a second time on the same singletons with the same
\* input (sig here, daysSupply and availableNDCs where they are read); the
\* services keep what their constructors set (useAI) and nothing else
Again ==
    /\ pc = "done" /\ op = "calculate" /\ first = Undefined
    /\ sig \in AISigs
    /\ first' = Some([parsedSIG |-> parsedSIG[1], totalQuantity |-> totalQuantity,
                      recommendations |-> recommendations, warnings |-> warnings,
                      daysSupply |-> daysSupply, availableNDCs |-> availableNDCs])
    /\ pc' = "start"
    /\ parsedBy' = "none"
    /\ parsedSIG' = Undefined
    /\ daysSupply' = 0
    /\ totalQuantity' = Num(0)
    /\ unit' = ""
    /\ availableNDCs' = <<>>
    /\ recommendations' = <<>>
    /\ step' = "none"
    /\ warnings' = <<>>
    /\ UNCHANGED <<op, sig, useAI, response>>

\* POST /api/calculate for a drug name, from the point where every lookup
\* has returned and availableNDCs is empty: parseSIG is called and its
\* promise is not awaited, calculateTotalQuantity is called with the
\* promise, and the response is built from both
PostWithoutPackages ==
    /\ pc = "start" /\ op = "POST"
    /\ LET parsed == PendingPromise
           quantity == calculateTotalQuantityOfValue(parsed, daysSupply)
       IN  /\ totalQuantity' = quantity
           /\ response' = Some([status |-> 200,
                                parsedSIG |-> JSONOfValue(parsed),
                                totalQuantity |-> JSONOfNumber(quantity),
                                unit |-> MemberOfValue(parsed, "unit"),
                                recommendations |-> <<>>,
                                availableNDCs |-> <<>>,
                                warnings |-> <<[type |-> "PACKAGE_MISMATCH",
                                                severity |-> "medium",
                                                quantity |-> quantity]>>])
    /\ pc' = "responded"
    /\ UNCHANGED <<op, sig, useAI, parsedBy, parsedSIG, daysSupply, unit,
                   availableNDCs, recommendations, step, warnings, first>>

\* the promise of the parseSIG call of the route is fulfilled: parseSIG
\* resumes after its dynamic import and returns parseWithRules(sig)
PostParseSettles ==
    /\ pc = "responded" /\ op = "POST"
    /\ parsedSIG' = Some(parseWithRules(sig))
    /\ parsedBy' = "rules"
    /\ pc' = "done"
    /\ UNCHANGED <<op, sig, useAI, daysSupply, totalQuantity, unit, availableNDCs,
                   recommendations, step, warnings, first, response>>

Next ==
    \/ ParseSIG
    \/ RequestAI
    \/ AIFails
    \/ AIAnswers
    \/ CalculateTotalQuantity
    \/ SelectForCalculate
    \/ Warn
    \/ SelectOptimalPackages
    \/ DetectOverfillUnderfill
    \/ CalculateTotalQuantityDirect
    \/ Again
    \/ PostWithoutPackages
    \/ PostParseSettles

Spec == Init /\ [][Next]_vars

\* The positions where the invocation runs code of its own: parseWithRules,
\* calculateTotalQuantity or selectOptimalPackages is about to be called.
\* ParseSIG, CalculateTotalQuantity or SelectForCalculate is enabled exactly
\* there.
LocalStepEnabled ==
    \/ pc = "start" /\ op = "calculate" /\ ~useAI
    \/ pc \in {"parsed", "quantified"}

\* A step of the invocation that is enabled is taken (synchronous code runs,
\* a pending await resumes when its promise settles); for the three steps
\* above, weak fairness is written out with their enabling condition.  The
\* reply of the AI service, AIFails or AIAnswers, is the network's to give:
\* fetch is called without a timeout or an abort signal, so nothing obliges
\* the request to settle.
LiveSpec ==
    /\ Spec
    /\ WF_vars(RequestAI)
    /\ WF_vars(Warn)
    /\ \/ []<>(~LocalStepEnabled)
       \/ []<><<ParseSIG \/ CalculateTotalQuantity \/ SelectForCalculate>>_vars

(***************************************************************************)
(* Properties.                                                             *)
(***************************************************************************)
\* the canonical unit names of the specification
CanonicalUnit(word) ==
    CASE word \in {"tablet", "tab", "tablets"} -> "tablet"
      [] word \in {"capsule", "cap", "capsules"} -> "capsule"
      [] word \in {"unit", "units"} -> "unit"
      [] word \in {"puff", "puffs"} -> "puff"
      [] word \in {"dose", "doses"} -> "dose"
      [] OTHER -> word

FrequencyOf(keyword) ==
    CASE keyword = "once" -> 1 [] keyword = "twice" -> 2
      [] keyword = "three times" -> 3 [] keyword = "four times" -> 4

\* the doses of the instructions: numeral and value
DoseInputs ==
    {[text |-> NumberToString(k), value |-> Num(k)] : k \in 1..MaxDose}

SimpleDoseInputs == DoseInputs \cup {[text |-> "1.5", value |-> Rat(3, 2)]}

RECURSIVE PlanTotal(_)
PlanTotal(plan) ==
    IF Len(plan) = 0 THEN Num(0)
    ELSE RAdd(plan[1].totalQuantity, PlanTotal(Tail(plan)))

\* the k-th candidate is active, of the target unit and of known quantity
Eligible(k) ==
    /\ availableNDCs[k].status = "ACTIVE"
    /\ IsDefined(availableNDCs[k].packageInfo)
    /\ CanonicalUnit(ToLowerCase(availableNDCs[k].packageInfo[1].unit))
          = CanonicalUnit(ToLowerCase(unit))
    /\ IsDefined(availableNDCs[k].packageInfo[1].quantity)

QuantityOf(k) == availableNDCs[k].packageInfo[1].quantity[1]

\* (ceil(targetQty / size) x size - targetQty) / targetQty x 100
VariancePercentOf(k) ==
    RMul(RDiv(RSub(Num(Ceil(RDiv(totalQuantity, Num(QuantityOf(k)))) * QuantityOf(k)),
                   totalQuantity),
              totalQuantity),
         Num(100))

\* C1: for 'Take D <unit> <once|twice|three times|four times> daily' parsed
\* by the rules, the total is D x F x daysSupply, the unit is the canonical
\* unit and the result is not complex.
C1_SimplePatternTotal ==
    (pc = "quantified" /\ parsedBy = "rules") =>
        \A d \in SimpleDoseInputs, u \in UnitNames, f \in FrequencyKeywords :
            sig = SimpleSig(d.text, u, f) =>
                /\ totalQuantity = RMul(RMul(d.value, Num(FrequencyOf(f))), Num(daysSupply))
                /\ unit = CanonicalUnit(u)
                /\ parsedSIG[1].unit = CanonicalUnit(u)
                /\ parsedSIG[1].isComplex = Some(FALSE)

C1_Witness ==
    /\ pc = "quantified" /\ parsedBy = "rules"
    /\ sig = "Take 1 tablet twice daily" /\ daysSupply = 30
    /\ totalQuantity = Num(60) /\ unit = "tablet"
    /\ parsedSIG[1].isComplex = Some(FALSE)

\* the text carries no unit word, digit, frequency keyword or PRN keyword
\* (and so matches no tier pattern, each of which needs a digit)
Unrecognized(text) ==
    LET normalized == Trim(ToLowerCase(text))
    IN  /\ \A k \in 1..Len(UnitWords) : ~Includes(normalized, UnitWords[k])
        /\ \A i \in 1..Len(normalized) : Ch(normalized, i) \notin Digits
        /\ \A w \in {"twice", "bid", "three times", "tid", "four times", "qid",
                     "once", "daily", "qd", "every",
                     "as needed", "prn", "when needed", "if needed"} :
              ~Includes(normalized, w)

ParsedSIGFields ==
    {"dose", "unit", "frequency", "prn", "isComplex", "schedule",
     "averageDailyDose", "maxDose", "instructions", "tier"}

C3_PlanFulfilsTarget ==
    (pc = "selected" /\ Len(recommendations) > 0) =>
        RLeq(totalQuantity, PlanTotal(recommendations))

\* C4: when an eligible package has exactly the target quantity, the plan
\* is one package of that size: count 1, exactMatch, variance 0, neither
\* overfill nor underfill, returned by the exact-match step.
C4_ExactMatch ==
    (/\ pc = "selected"
     /\ \E k \in 1..Len(availableNDCs) : Eligible(k) /\ Num(QuantityOf(k)) = totalQuantity)
    =>  /\ Len(recommendations) = 1
        /\ step = "exactMatch"
        /\ recommendations[1].ndc.packageInfo[1].quantity = Some(totalQuantity.n)
        /\ recommendations[1].packageCount = 1
        /\ recommendations[1].totalQuantity = totalQuantity
        /\ recommendations[1].exactMatch
        /\ recommendations[1].variancePercentage = Some(Num(0))
        /\ recommendations[1].overfill = Undefined
        /\ recommendations[1].underfill = Undefined

C4_Witness ==
    /\ pc = "selected" /\ step = "exactMatch"
    /\ totalQuantity = Num(4) /\ Len(availableNDCs) = 2
    /\ Eligible(1) /\ QuantityOf(1) = 4
    /\ Eligible(2) /\ QuantityOf(2) = 2
    /\ recommendations[1].packageCount = 1

C6_EmptyIffNoEligible ==
    (pc = "selected" /\ RLess(Num(0), totalQuantity)) =>
        (Len(recommendations) = 0
            <=> ~\E k \in 1..Len(availableNDCs) : Eligible(k))

\* every eligible package is larger than the target, the combination
\* selects nothing, and the plan is still not empty
C6_Witness ==
    /\ pc = "selected" /\ step = "bestMatch" /\ Len(recommendations) = 1
    /\ totalQuantity = Num(1)
    /\ \E k \in 1..Len(availableNDCs) : Eligible(k)
    /\ \A k \in 1..Len(availableNDCs) : Eligible(k) => QuantityOf(k) > 1
    /\ \E k \in 1..Len(availableNDCs) :
          /\ IsDefined(availableNDCs[k].packageInfo)
          /\ ~IsDefined(availableNDCs[k].packageInfo[1].quantity)

\* C7: every item of a plan references a candidate that is active, of the
\* target unit and of known quantity, with a count >= 1 and a total of
\* count x quantity.
C7_ItemsWellFormed ==
    pc = "selected" =>
        \A i \in 1..Len(recommendations) :
            LET rec == recommendations[i]
            IN  /\ rec.ndc.ndc \in 1..Len(availableNDCs)
                /\ availableNDCs[rec.ndc.ndc] = rec.ndc
                /\ Eligible(rec.ndc.ndc)
                /\ rec.packageCount \in Nat \ {0}
                /\ rec.totalQuantity = Num(rec.packageCount * QuantityOf(rec.ndc.ndc))

\* a two-item combination, and a plan through the synonym 'tab' beside a
\* package of unknown quantity
C7_Witness ==
    /\ pc = "selected"
    /\ \/ /\ step = "combination" /\ Len(recommendations) = 2
          /\ recommendations[1].packageCount >= 1
       \/ /\ Len(recommendations) = 1
          /\ recommendations[1].ndc.packageInfo[1].unit = "tab"
          /\ unit = "tablet"
          /\ \E k \in 1..Len(availableNDCs) :
                /\ IsDefined(availableNDCs[k].packageInfo)
                /\ ~IsDefined(availableNDCs[k].packageInfo[1].quantity)

RangeUnits == {"tablet", "tablets", "ml"}

\* C8: a PRN keyword leaves the frequency at its keyword value: 'N-M <unit>
\* as needed' gives dose N, maxDose M, frequency 1, prn, averageDailyDose
\* (N+M)/2 and the total ceil(((N+M)/2) x 0.5 x daysSupply).
C8_PrnKeepsFrequency ==
    (pc = "quantified" /\ parsedBy = "rules") =>
        \A n \in DoseInputs, m \in DoseInputs, u \in RangeUnits :
            sig = RangeSig(n.text, m.text, u, " as needed") =>
                LET average == RDiv(RAdd(n.value, m.value), Num(2))
                IN  /\ parsedSIG[1].dose = n.value
                    /\ parsedSIG[1].maxDose = Some(m.value)
                    /\ parsedSIG[1].frequency = Num(1)
                    /\ parsedSIG[1].prn = Some(TRUE)
                    /\ parsedSIG[1].averageDailyDose = Some(average)
                    /\ totalQuantity =
                          Num(Ceil(RMul(RMul(average, Rat(1, 2)), Num(daysSupply))))

\* C9: 'N <unit> (in the) morning and M (<unit>) at/in <evening keyword>'
\* gives a complex result of frequency 2, averageDailyDose N+M, the
\* schedule [morning N, bedtime M] and the total (N+M) x daysSupply.
C9_MultiTime ==
    (pc = "quantified" /\ parsedBy = "rules") =>
        \A n \in DoseInputs, m \in DoseInputs, u \in MultiTimeUnits,
           a \in MorningPhrases, e \in EveningPhrases :
            sig = MultiTimeSig(n.text, u, a, m.text, e) =>
                /\ parsedSIG[1].isComplex = Some(TRUE)
                /\ parsedSIG[1].frequency = Num(2)
                /\ parsedSIG[1].averageDailyDose = Some(RAdd(n.value, m.value))
                /\ parsedSIG[1].schedule =
                      Some(<<ScheduleEntry(n.value, Num(1), Some("morning"), Undefined),
                             ScheduleEntry(m.value, Num(1), Some("bedtime"), Undefined)>>)
                /\ totalQuantity = RMul(RAdd(n.value, m.value), Num(daysSupply))

\* C10: 'Take N <unit> on day D, then M <unit> daily', unit words singular
\* or plural, gives the complex schedule [day D: N, days D+1+: M] and for
\* daysSupply >= D the total N + M x (daysSupply - D).
C10_Tapering ==
    (pc = "quantified" /\ parsedBy = "rules") =>
        \A n \in DoseInputs, m \in DoseInputs, u \in TaperingUnits, d \in 1..MaxTaperDay :
            sig = TaperingSig(n.text, u, NumberToString(d), m.text, "tablet") =>
                /\ parsedSIG[1].isComplex = Some(TRUE)
                /\ parsedSIG[1].schedule =
                      Some(<<ScheduleEntry(n.value, Num(1), Undefined,
                                           Some("day " \o NumberToString(d))),
                             ScheduleEntry(m.value, Num(1), Undefined,
                                           Some("days " \o NumberToString(d + 1) \o "+"))>>)
                /\ daysSupply >= d =>
                      totalQuantity = RAdd(n.value, RMul(m.value, Num(daysSupply - d)))

\* C11: whenever calculate returns a non-empty plan whose summed
\* totalQuantity is below the calculated quantity, the warnings hold an
\* UNDERFILL warning and an item records its underfill amount > 0.
C11_UnderfillReported ==
    (/\ pc = "done" /\ op = "calculate"
     /\ Len(recommendations) > 0
     /\ RLess(PlanTotal(recommendations), totalQuantity))
    =>  /\ \E i \in 1..Len(warnings) : warnings[i].type = "UNDERFILL"
        /\ \E i \in 1..Len(recommendations) :
              /\ IsDefined(recommendations[i].underfill)
              /\ RLess(Num(0), recommendations[i].underfill[1])

\* C12: the severity of every OVERFILL or UNDERFILL warning follows the
\* variance percentage p of its plan item (absolute value for underfill):
\* high iff p > 20, medium iff 10 < p <= 20, low iff p <= 10.
C12_SeverityThresholds ==
    pc = "done" =>
        \A i \in 1..Len(warnings) :
            warnings[i].type \in {"OVERFILL", "UNDERFILL"} =>
                \E j \in 1..Len(recommendations) :
                    /\ recommendations[j].ndc.ndc = warnings[i].recommendation
                    /\ IsDefined(recommendations[j].variancePercentage)
                    /\ LET v == recommendations[j].variancePercentage[1]
                           p == IF warnings[i].type = "UNDERFILL"
                                THEN Rat(Abs(v.n), v.d) ELSE v
                       IN  /\ warnings[i].severity = "high" <=> RLess(Num(20), p)
                           /\ warnings[i].severity = "medium"
                                 <=> (RLess(Num(10), p) /\ RLeq(p, Num(20)))
                           /\ warnings[i].severity = "low" <=> RLeq(p, Num(10))

\* target 100 with one active 30-unit package: 4 packages, overfill 20,
\* variance 20 percent, severity medium
C12_Witness ==
    /\ pc = "done" /\ totalQuantity = Num(100)
    /\ Len(availableNDCs) = 1 /\ Eligible(1) /\ QuantityOf(1) = 30
    /\ Len(recommendations) = 1
    /\ recommendations[1].packageCount = 4
    /\ recommendations[1].totalQuantity = Num(120)
    /\ recommendations[1].overfill = Some(Num(20))
    /\ recommendations[1].variancePercentage = Some(Num(20))
    /\ Len(warnings) = 1
    /\ warnings[1].type = "OVERFILL" /\ warnings[1].severity = "medium"

\* the number of warnings of a type in the result
CountOf(type) == Cardinality({i \in 1..Len(warnings) : warnings[i].type = type})

\* C13: the warnings of calculate hold exactly one INACTIVE_NDC warning
\* (severity high) iff a candidate has status INACTIVE, and exactly one
\* UNUSUAL_QUANTITY warning iff the quantity is > 1000, whatever the plan.
C13_CallerWarnings ==
    (pc = "done" /\ op = "calculate") =>
        /\ CountOf("INACTIVE_NDC") =
              IF \E k \in 1..Len(availableNDCs) : availableNDCs[k].status = "INACTIVE"
              THEN 1 ELSE 0
        /\ \A i \in 1..Len(warnings) :
              warnings[i].type = "INACTIVE_NDC" => warnings[i].severity = "high"
        /\ CountOf("UNUSUAL_QUANTITY") = IF RLess(Num(1000), totalQuantity) THEN 1 ELSE 0

\* a quantity of exactly 1000 with an inactive candidate and an empty plan
C13_Witness ==
    /\ pc = "done" /\ op = "calculate"
    /\ totalQuantity = Num(1000)
    /\ Len(recommendations) = 0
    /\ \E k \in 1..Len(availableNDCs) : availableNDCs[k].status = "INACTIVE"
    /\ CountOf("INACTIVE_NDC") = 1 /\ CountOf("UNUSUAL_QUANTITY") = 0

\* C14: a text with a PRN keyword is parsed with prn = true whichever tier
\* matches, and by the tier that matches the text without the keyword.
C14_PrnIndependentOfTier ==
    (pc = "parsed" /\ parsedBy = "rules") =>
        \A base \in PrnBases, keyword \in PrnKeywords :
            sig = PrnSig(base, keyword) =>
                /\ parsedSIG[1].prn = Some(TRUE)
                /\ parsedSIG[1].tier = parseWithRules(base).tier

\* C15: calculateTotalQuantity called with a daysSupply that is not a
\* positive integer, and selectOptimalPackages called with a totalQuantity
\* that is not a positive integer, raise an error instead of returning.
C15_PreconditionError ==
    /\ (op = "calculateTotalQuantity" /\ pc # "start" /\ daysSupply < 1)
          => pc = "threw"
    /\ (op = "selectOptimalPackages" /\ pc # "start"
            /\ (totalQuantity.d # 1 \/ totalQuantity.n < 1))
          => pc = "threw"

\* C16: with the AI strategy enabled every parseSIG call completes, and a
\* call whose AI strategy fails returns the result of parseWithRules on
\* the same text.
C16_AIFallbackCompletes ==
    /\ [](pc = "parsed" /\ parsedBy = "rules" => parsedSIG = Some(parseWithRules(sig)))
    /\ (pc = "awaitingAI") ~> (pc = "parsed")

\* C17: every ParsedSIG returned by parseSIG, by the rules or by the AI
\* strategy, has a present and non-empty schedule if and only if isComplex
\* is true.
C17_ShapeInvariant ==
    (pc = "parsed" /\ op = "calculate") =>
        LET result == parsedSIG[1]
        IN  (IsDefined(result.schedule) /\ Len(result.schedule[1]) > 0)
                <=> (result.isComplex = Some(TRUE))

\* C18: two invocations of calculate with the same SIG text, daysSupply and
\* candidate list return the same ParsedSIG, totalQuantity, plan and
\* warnings.
C18_SameInputSameResult ==
    (pc = "done" /\ IsDefined(first)) =>
        /\ \A field \in ParsedSIGFields \ {"tier"} :
              parsedSIG[1][field] = first[1].parsedSIG[field]
        /\ totalQuantity = first[1].totalQuantity
        /\ recommendations = first[1].recommendations
        /\ warnings = first[1].warnings

\* C19: the patterns are tried in the order range, multi-time, tapering,
\* meal times, and the first that matches alone determines the ParsedSIG,
\* also for a text that later patterns match as well; the default tier is
\* used only when none of the four matches.
C19_FirstMatchingTierWins ==
    (pc = "parsed" /\ parsedBy = "rules" /\ op = "calculate") =>
        LET normalized == Trim(ToLowerCase(sig))
            result == parsedSIG[1]
            unitOf == IF Test(unitRegex, normalized)
                      THEN normalizeUnit(Match(unitRegex, normalized)[1][1])
                      ELSE "unit"
            isPRN == Test(prnRegex, normalized)
            isRange == Test(rangeRegex, normalized)
            isMultipleTimes == Test(multipleTimesRegex, normalized)
            isTapering == Test(taperingRegex, normalized)
            isMealTimes == Test(mealTimesRegex, normalized)
        IN  /\ isRange =>
                  result = RangeTier(Match(rangeRegex, normalized), unitOf, isPRN,
                                     normalized, sig)
            /\ ~isRange /\ isMultipleTimes =>
                  result = MultipleTimesTier(Match(multipleTimesRegex, normalized),
                                             unitOf, sig)
            /\ ~isRange /\ ~isMultipleTimes /\ isTapering =>
                  result = TaperingTier(Match(taperingRegex, normalized), unitOf, sig)
            /\ ~isRange /\ ~isMultipleTimes /\ ~isTapering /\ isMealTimes =>
                  result = MealTimesTier(Match(mealTimesRegex, normalized), unitOf, sig)
            /\ result.tier = "default"
                  <=> ~(isRange \/ isMultipleTimes \/ isTapering \/ isMealTimes)
            /\ sig = "Take 1-2 tablet in the morning and 1 at bedtime" =>
                  /\ result.dose = Num(1) /\ result.frequency = Num(1)
                  /\ result.averageDailyDose = Some(Rat(3, 2))
                  /\ result.isComplex = Some(FALSE) /\ result.schedule = Undefined
            /\ sig = "Take 1-2 tablet on day 1, then 1 tablet daily" =>
                  /\ result.dose = Num(1) /\ result.isComplex = Some(FALSE)
                  /\ result.schedule = Undefined
            /\ sig = "1 tab am, 1 at pm, 2 tab 1 then 1 tab qd" =>
                  /\ result.dose = Num(1) /\ result.frequency = Num(2)
                  /\ result.averageDailyDose = Some(Num(2))
                  /\ Len(result.schedule[1]) = 2
            /\ sig = "1 g with food, meal 2 tab 1 then 1 tab qd" =>
                  /\ result.dose = Num(1) /\ result.frequency = Num(1)
                  /\ result.averageDailyDose = Some(Num(2))
                  /\ result.unit = "g"

\* a text the range and the multi-time patterns both match has been parsed
C19_Witness ==
    /\ pc = "parsed" /\ parsedBy = "rules"
    /\ sig = "Take 1-2 tablet in the morning and 1 at bedtime"
    /\ Test(rangeRegex, Trim(ToLowerCase(sig)))
    /\ Test(multipleTimesRegex, Trim(ToLowerCase(sig)))
    /\ parsedSIG[1].dose = Num(1)

\* C20: for a positive target, when some eligible package alone comes
\* within 20% of the target (exactly 20% included) the plan is one item of
\* a single package and no combination; a combination is returned only
\* when every eligible package is more than 20% over, and when the
\* combination selects nothing the best single item is returned.  Target
\* 100 with one active package of 30 gives 4 packages, 120, overfill 20,
\* variance 20%.
C20_CombinationThreshold ==
    (pc = "selected" /\ RLess(Num(0), totalQuantity)) =>
        LET eligible == {k \in 1..Len(availableNDCs) : Eligible(k)}
        IN  /\ (\E k \in eligible : RLeq(VariancePercentOf(k), Num(20))) =>
                  /\ step \in {"exactMatch", "bestMatch"}
                  /\ Len(recommendations) = 1
                  /\ RLeq(recommendations[1].variancePercentage[1], Num(20))
                  /\ RLeq(totalQuantity, recommendations[1].totalQuantity)
            /\ step = "combination" =>
                  \A k \in eligible : RLess(Num(20), VariancePercentOf(k))
            /\ (eligible # {} /\ \A k \in eligible : RLess(totalQuantity, Num(QuantityOf(k)))) =>
                  /\ step = "bestMatch"
                  /\ Len(recommendations) = 1
            /\ (/\ totalQuantity = Num(100) /\ Len(availableNDCs) = 1
                /\ Eligible(1) /\ QuantityOf(1) = 30) =>
                  /\ Len(recommendations) = 1
                  /\ recommendations[1].packageCount = 4
                  /\ recommendations[1].totalQuantity = Num(120)
                  /\ recommendations[1].overfill = Some(Num(20))
                  /\ recommendations[1].variancePercentage = Some(Num(20))

\* target 100 and one active package of 30: the variance is exactly 20%
\* and the plan is the single item
C20_Witness ==
    /\ pc = "selected" /\ step = "bestMatch"
    /\ totalQuantity = Num(100) /\ Len(availableNDCs) = 1
    /\ Eligible(1) /\ QuantityOf(1) = 30
    /\ Len(recommendations) = 1
    /\ recommendations[1].packageCount = 4
    /\ recommendations[1].variancePercentage = Some(Num(20))

\* the items of the plan visited before the k-th candidate: those of a
\* larger package, or of an equally large one earlier in the list
PlanBefore(k) ==
    SelectSeq(recommendations,
              LAMBDA item : \/ QuantityOf(item.ndc.ndc) > QuantityOf(k)
                            \/ /\ QuantityOf(item.ndc.ndc) = QuantityOf(k)
                               /\ item.ndc.ndc < k)

\* what remains of the target when the k-th candidate is visited
RemainingBefore(k) == RSub(totalQuantity, PlanTotal(PlanBefore(k)))

\* C21: a combination plan is the greedy one: packages in non-increasing
\* order of size, each at most once, floor(remaining / size) of each and
\* none of a package whose share is 0; its total never exceeds the target,
\* no item is an exact match and every recorded overfill is <= 0.
C21_GreedyCombination ==
    (pc = "selected" /\ step = "combination") =>
        LET plan == recommendations
            used == {plan[a].ndc.ndc : a \in 1..Len(plan)}
        IN  /\ Len(plan) > 0
            /\ RLeq(PlanTotal(plan), totalQuantity)
            /\ \A a, b \in 1..Len(plan) :
                  a < b => /\ plan[a].ndc.ndc # plan[b].ndc.ndc
                           /\ QuantityOf(plan[a].ndc.ndc) >= QuantityOf(plan[b].ndc.ndc)
            /\ \A a \in 1..Len(plan) :
                  LET k == plan[a].ndc.ndc
                  IN  /\ Eligible(k) /\ availableNDCs[k] = plan[a].ndc
                      /\ plan[a].packageCount > 0
                      /\ plan[a].packageCount
                            = Floor(RDiv(RemainingBefore(k), Num(QuantityOf(k))))
                      /\ plan[a].totalQuantity = Num(plan[a].packageCount * QuantityOf(k))
                      /\ ~plan[a].exactMatch
                      /\ plan[a].overfill
                            = Some(RSub(plan[a].totalQuantity, RemainingBefore(k)))
                      /\ RLeq(plan[a].overfill[1], Num(0))
            /\ \A k \in 1..Len(availableNDCs) :
                  (Eligible(k) /\ k \notin used) =>
                      RLess(RemainingBefore(k), Num(QuantityOf(k)))

\* a combination of two packages has been returned
C21_Witness ==
    /\ pc = "selected" /\ step = "combination"
    /\ Len(recommendations) = 2
    /\ QuantityOf(recommendations[1].ndc.ndc) > QuantityOf(recommendations[2].ndc.ndc)
    /\ RLess(PlanTotal(recommendations), totalQuantity)

\* C22: the warnings hold exactly one OVERFILL warning for each plan item
\* whose overfill is > 0 and none for an item whose overfill is absent,
\* zero or negative; no OVERFILL warning states a negative amount.
C22_OverfillOnlyWhenPositive ==
    (pc = "done" /\ op \in {"calculate", "selectOptimalPackages"}) =>
        /\ \A i \in 1..Len(recommendations) :
              LET rec == recommendations[i]
                  about == {w \in 1..Len(warnings) :
                               /\ warnings[w].type = "OVERFILL"
                               /\ warnings[w].recommendation = rec.ndc.ndc}
              IN  Cardinality(about)
                     = IF IsDefined(rec.overfill) /\ RLess(Num(0), rec.overfill[1])
                       THEN 1 ELSE 0
        /\ \A w \in 1..Len(warnings) :
              warnings[w].type = "OVERFILL" => RLeq(Num(0), warnings[w].amount)

\* the quantity the statement of C23 gives for an as-needed ParsedSIG
StatedPrnQuantity(parsed, days) ==
    LET avgDose == IF IsDefined(parsed.averageDailyDose)
                   THEN parsed.averageDailyDose[1] ELSE parsed.dose
        estimatedFrequency == IF parsed.frequency.n > 0
                              THEN RMul(parsed.frequency, Rat(1, 2)) ELSE Num(2)
    IN  Num(Ceil(RMul(RMul(avgDose, estimatedFrequency), Num(days))))

\* C23: for a ParsedSIG with prn = true, complex or not, and daysSupply >= 1,
\* calculateTotalQuantity returns the integer ceil(avgDose x
\* estimatedFrequency x daysSupply), avgDose being averageDailyDose whenever
\* that field is present, 0 included, and dose otherwise; estimatedFrequency
\* is frequency x 0.5 when frequency > 0 and 2 when frequency = 0.
C23_PrnQuantity ==
    (/\ \/ op = "calculateTotalQuantity" /\ pc = "done"
        \/ op = "calculate" /\ pc = "quantified"
     /\ parsedSIG[1].prn = Some(TRUE)
     /\ daysSupply >= 1)
        => /\ totalQuantity = StatedPrnQuantity(parsedSIG[1], daysSupply)
           /\ totalQuantity.d = 1

\* the interval the grammar of C24 gives a dayRange text
StatedInterval(text, days) ==
    LET numbers == 0..(MaxTaperDay + 1)
    IN  IF \E n \in numbers : text = "day " \o NumberToString(n)
        THEN LET n == CHOOSE n \in numbers : text = "day " \o NumberToString(n)
             IN  [start |-> n, end |-> n]
        ELSE IF \E n \in numbers, m \in numbers :
                    text = "days " \o NumberToString(n) \o "-" \o NumberToString(m)
        THEN LET nm == CHOOSE nm \in numbers \X numbers :
                          text = "days " \o NumberToString(nm[1]) \o "-"
                                    \o NumberToString(nm[2])
             IN  [start |-> nm[1], end |-> nm[2]]
        ELSE IF \E n \in numbers : text = "days " \o NumberToString(n) \o "+"
        THEN LET n == CHOOSE n \in numbers : text = "days " \o NumberToString(n) \o "+"
             IN  [start |-> n, end |-> days]
        ELSE [start |-> 1, end |-> days]

\* days(entry) of C24
StatedDays(entry, days) ==
    IF ~IsDefined(entry.dayRange) THEN days
    ELSE LET interval == StatedInterval(entry.dayRange[1], days)
         IN  IF interval.start > interval.end THEN 0
             ELSE interval.end - interval.start + 1

RECURSIVE StatedScheduleQuantity(_, _, _)
StatedScheduleQuantity(schedule, k, days) ==
    IF k > Len(schedule) THEN Num(0)
    ELSE RAdd(RMul(RMul(schedule[k].dose, schedule[k].frequency),
                   Num(StatedDays(schedule[k], days))),
              StatedScheduleQuantity(schedule, k + 1, days))

\* a call of calculateTotalQuantity has returned for a complex ParsedSIG
\* that is not as-needed, with a daysSupply >= 1
ComplexQuantified ==
    /\ \/ op = "calculateTotalQuantity" /\ pc = "done"
       \/ op = "calculate" /\ pc = "quantified"
    /\ daysSupply >= 1
    /\ parsedSIG[1].prn # Some(TRUE)
    /\ parsedSIG[1].isComplex = Some(TRUE)
    /\ IsDefined(parsedSIG[1].schedule) /\ Len(parsedSIG[1].schedule[1]) > 0

RECURSIVE AllDaysQuantity(_, _, _)
\* the sum over the entries k.. of dose x frequency x daysSupply
AllDaysQuantity(schedule, k, days) ==
    IF k > Len(schedule) THEN Num(0)
    ELSE RAdd(RMul(RMul(schedule[k].dose, schedule[k].frequency), Num(days)),
              AllDaysQuantity(schedule, k + 1, days))

\* C25: every day interval resolved for a schedule entry lies within
\* [1, daysSupply], so days named after daysSupply are not counted: each
\* entry contributes at most dose x frequency x daysSupply and the complex
\* total never exceeds the sum over entries of dose x frequency x daysSupply.
C25_IntervalWithinSupply ==
    ComplexQuantified =>
        LET schedule == parsedSIG[1].schedule[1]
        IN  /\ \A k \in 1..Len(schedule) :
                  /\ (IsDefined(schedule[k].dayRange) /\ schedule[k].dayRange[1] # "") =>
                        LET dayRange == parseDayRange(schedule[k].dayRange[1], daysSupply)
                        IN  dayRange.start <= dayRange.end =>
                               (1 <= dayRange.start /\ dayRange.end <= daysSupply)
                  /\ RLeq(EntryQuantity(schedule[k], daysSupply),
                          RMul(RMul(schedule[k].dose, schedule[k].frequency),
                               Num(daysSupply)))
            /\ RLeq(totalQuantity, AllDaysQuantity(schedule, 1, daysSupply))

\* the number of packages of candidate k that cover the target
PackagesNeededOf(k) == Ceil(RDiv(totalQuantity, Num(QuantityOf(k))))

\* C26: among the eligible packages that give the same waste, zero
\* included, the plan uses the one that needs the fewest packages; for
\* target 60 with active sizes 10, 20 and 30 it is 2 packages of 30.
C26_FewestPackages ==
    (pc = "selected" /\ step = "bestMatch" /\ Len(recommendations) = 1) =>
        LET rec == recommendations[1]
            chosen == rec.ndc.ndc
        IN  /\ \A k \in 1..Len(availableNDCs) :
                  (Eligible(k) /\ VariancePercentOf(k) = VariancePercentOf(chosen))
                      => rec.packageCount <= PackagesNeededOf(k)
            /\ (/\ totalQuantity = Num(60) /\ Len(availableNDCs) = 3
                /\ \A k \in 1..3 : Eligible(k)
                /\ {QuantityOf(k) : k \in 1..3} = {10, 20, 30})
                  => (rec.packageCount = 2 /\ QuantityOf(chosen) = 30)

\* C27: a drug-name request for which no NDC package is found is answered
\* with status 200, parsedSIG the completed parse of the SIG, totalQuantity
\* the finite calculateTotalQuantity(that parse, daysSupply), unit the
\* parsed unit, no recommendation and exactly one PACKAGE_MISMATCH warning;
\* the quantity is computed only after the parse has completed.
C27_FallbackResponse ==
    (op = "POST" /\ IsDefined(response)) =>
        /\ response[1].status = 200
        /\ IsDefined(parsedSIG)
        /\ response[1].parsedSIG = JSONOfParsedSIG(parsedSIG[1])
        /\ totalQuantity.d # 0
        /\ totalQuantity = calculateTotalQuantity(parsedSIG[1], daysSupply)
        /\ response[1].totalQuantity = Some(totalQuantity)
        /\ response[1].unit = Some(parsedSIG[1].unit)
        /\ response[1].recommendations = <<>>
        /\ Len(response[1].warnings) = 1
        /\ response[1].warnings[1].type = "PACKAGE_MISMATCH"

\* the suffixes of a range text without a PRN keyword, and the frequency
\* their keyword names
PlainRangeSuffixes ==
    {[text |-> "", frequency |-> 1], [text |-> " twice daily", frequency |-> 2],
     [text |-> " four times daily", frequency |-> 4]}

\* C28: a dose range 'N-M <unit>' without a PRN keyword, with or without a
\* twice / three times / four times keyword, is totalled as N x frequency x
\* daysSupply: the lower bound only, whatever M and averageDailyDose are.
C28_RangeLowerBound ==
    (pc = "quantified" /\ parsedBy = "rules") =>
        \A n \in DoseInputs, m \in DoseInputs, u \in {"tablet", "tablets", "ml"},
           x \in PlainRangeSuffixes :
            sig = RangeSig(n.text, m.text, u, x.text) =>
                /\ parsedSIG[1].tier = "range"
                /\ parsedSIG[1].dose = n.value
                /\ totalQuantity = RMul(RMul(n.value, Num(x.frequency)), Num(daysSupply))

\* 'Take 1-2 tablets four times daily' for 30 days has been totalled as 120,
\* its averageDailyDose being 6
C28_Witness ==
    /\ pc = "quantified" /\ parsedBy = "rules"
    /\ sig = RangeSig("1", "2", "tablets", " four times daily")
    /\ daysSupply = 30
    /\ parsedSIG[1].averageDailyDose = Some(Num(6))
    /\ totalQuantity = Num(120)

\* the texts with a decimal dose, the numeral written before the unit word
\* (the lower bound of a range) and the tier that parses them
DecimalDoses ==
    {[text |-> "Take 0.5-1 tablet", dose |-> Rat(1, 2), tier |-> "range"],
     [text |-> "Take 1.5 tab am, 1 at pm", dose |-> Rat(3, 2), tier |-> "multipleTimes"],
     [text |-> "Take 1.5 tab on day 1, then 1 tab qd", dose |-> Rat(3, 2),
      tier |-> "tapering"],
     [text |-> "Take 1.5 tab with food, lunch", dose |-> Rat(3, 2), tier |-> "mealTimes"],
     [text |-> "Take 1.5 tablet twice daily", dose |-> Rat(3, 2), tier |-> "default"]}

\* the dose a parse result gives the first numeral of the text: the first
\* schedule entry's where there is a schedule, the dose field otherwise
FirstDose(parsed) ==
    IF IsDefined(parsed.schedule) /\ Len(parsed.schedule[1]) > 0
    THEN parsed.schedule[1][1].dose ELSE parsed.dose

\* C29: in every tier the parsed dose is the complete numeral written before
\* the unit word: '1.5 tablet' is never read as 5 nor '0.5-1 tablet' as 5-1,
\* so the range, multi-time, tapering and meal-times tiers read a decimal
\* dose as the default tier does.
C29_DecimalDose ==
    (pc = "parsed" /\ parsedBy = "rules") =>
        \A d \in DecimalDoses :
            sig = d.text =>
                /\ parsedSIG[1].tier = d.tier
                /\ FirstDose(parsedSIG[1]) = d.dose

\* texts with a dose pattern 'N <unit word>', and the unit word of the dose
DoseUnits ==
    {[text |-> "Give 5 ml twice daily", word |-> "ml"],
     [text |-> "Using 2 puffs daily", word |-> "puffs"],
     [text |-> "Stable dose 1 cap daily", word |-> "cap"],
     [text |-> "Take 5ml three times daily", word |-> "ml"],
     [text |-> "Take 2 capsules every 8 hours", word |-> "capsules"]}

\* C30: when the text has a dose pattern 'N <unit word>' the unit of the
\* parse result is the canonical form of that unit word, whatever letters
\* earlier in the text spell a unit keyword (the 'g' of 'Give' or 'Using',
\* 'tab' inside a word), and that unit is the one passed to package
\* selection.
C30_UnitOfDose ==
    (op = "calculate" /\ parsedBy = "rules") =>
        \A d \in DoseUnits :
            sig = d.text =>
                /\ pc \in {"parsed", "quantified", "selected", "done"}
                      => parsedSIG[1].unit = CanonicalUnit(d.word)
                /\ pc \in {"selected", "done"} => unit = CanonicalUnit(d.word)

====
